---- MODULE Spec2Model ----
(***************************************************************************)
(* A model of rssbot: the RSS-to-Lemmy scheduler of fetch_and_post.py, the *)
(* SQLite persistence layer of db.py and the private-message command       *)
(* processor.  Time is counted in minutes.                                 *)
(***************************************************************************)
EXTENDS Integers, Sequences, FiniteSets, TLC

VARIABLES
    feeds,          \* rows of table rss_feeds
    articles,       \* rows of table rss_articles
    now,            \* the wall clock, datetime.now(timezone.utc), in minutes
    pc,             \* where fetch_and_post() stands
    feed_list,      \* local `feeds` of fetch_and_post: the rows read by list_feeds()
    idx,            \* position of the `for feed in feeds` loop in feed_list
    next_loop,      \* local next_loop
    hit_servers,    \* local hit_servers
    cur,            \* locals of the per-feed procedure while create_post is in flight
    remote_posts,   \* posts created on the Lemmy server, in order of creation
    inbox,          \* unread private messages on the server
    outbox,         \* private messages the bots have sent
    hist            \* history of the run (observations only, never read by the program)

vars == <<feeds, articles, now, pc, feed_list, idx, next_loop, hit_servers, cur,
          remote_posts, inbox, outbox, hist>>

--------------------------------------------------------------------------
(* Values *)

\* SQL NULL / Python None in an integer column or variable
NULL == 0
\* SQL NULL / Python None in a text column or variable
None == "None"

\* timedelta constants, in minutes
MIN_BACKOFF == 5
SHORT_BACKOFF == 120
LONG_BACKOFF == 1440
MAX_BACKOFF == 5760
POST_WINDOW == 4320
MESSAGE_POLL_INTERVAL == 1
DAY == 1440

\* Config.LEMMY_SERVER
LEMMY_SERVER == "srv"

\* keys of lemmy_apis, in dict order
Bots == <<"free", "paywall", "bot">>

\* -c/--communities is not given
community_filter == {}

--------------------------------------------------------------------------
(* Bounds of the model *)

\* the clock at the start of the run and the last instant the model looks at
StartTime == 6000
Horizon == 10
MaxNow == StartTime + Horizon
\* private messages sent to the bots over a run
MaxMsgs == 1
\* terminations (and restarts) of the process over a run
MaxCrashes == 1

\* raw titles: a plain one and one that the blacklist matches
PlainTitle == <<"t">>
JunkTitle == <<"D","a","i","l","y"," ","D","e","a","l",":"," ","d">>

--------------------------------------------------------------------------
(* Persistence: class RSSFeedDB.  A query that returns one row or None is  *)
(* modelled as a set holding at most one row.                              *)

\* an omitted (None) selector of remove_feed
Omitted == <<>>

MaxId(rows) == IF rows = {} THEN 0 ELSE CHOOSE m \in {r.id : r \in rows} : \A r \in rows : r.id <= m

\* INTEGER PRIMARY KEY without AUTOINCREMENT: one more than the largest rowid in the table
NewRowid(rows) == MaxId(rows) + 1

RECURSIVE SortById(_)
SortById(rows) ==
    IF rows = {} THEN <<>>
    ELSE LET r == CHOOSE x \in rows : \A y \in rows : x.id <= y.id
         IN <<r>> \o SortById(rows \ {r})

list_feeds(fs) == SortById(fs)

\* a plain INSERT into a table without UNIQUE(feed_url, community_id)
add_feed_plain(fs, feed_url, community_name, community_id, last_updated_header, etag, next_check, bot_username) ==
    IF bot_username = None THEN fs
    ELSE fs \cup {[id |-> NewRowid(fs), feed_url |-> feed_url, community_name |-> community_name,
                   community_id |-> community_id, last_updated_header |-> last_updated_header,
                   next_check |-> next_check, etag |-> etag, bot_username |-> bot_username]}

\* INSERT OR REPLACE: the rowid is taken first, then the row that conflicts on
\* UNIQUE(feed_url, community_id) is deleted and the new row inserted.
\* A NULL bot_username violates NOT NULL and the statement aborts.
add_feed(fs, feed_url, community_name, community_id, last_updated_header, etag, next_check, bot_username) ==
    IF bot_username = None THEN fs
    ELSE LET conflict == {f \in fs : f.feed_url = feed_url /\ f.community_id = community_id}
             row == [id |-> NewRowid(fs), feed_url |-> feed_url, community_name |-> community_name,
                     community_id |-> community_id, last_updated_header |-> last_updated_header,
                     next_check |-> next_check, etag |-> etag, bot_username |-> bot_username]
         IN (fs \ conflict) \cup {row}

update_feed_timestamps(fs, feed_id, last_updated_header, etag, next_check) ==
    {IF f.id = feed_id
        THEN [f EXCEPT !.last_updated_header = last_updated_header, !.etag = etag, !.next_check = next_check]
        ELSE f : f \in fs}

get_article_by_url(arts, article_url) == {a \in arts : a.article_url = article_url}

\* a plain INSERT into a table whose article_url is not declared UNIQUE
add_article_plain(arts, feed_id, article_url, headline, fetched_timestamp, lemmy_post_id) ==
    arts \cup {[id |-> NewRowid(arts), feed_id |-> feed_id, article_url |-> article_url,
                headline |-> headline, fetched_timestamp |-> fetched_timestamp,
                lemmy_post_id |-> lemmy_post_id]}

\* INSERT OR REPLACE: the row that holds the link is replaced by the new one
add_article_replace(arts, feed_id, article_url, headline, fetched_timestamp, lemmy_post_id) ==
    {a \in arts : a.article_url # article_url}
       \cup {[id |-> NewRowid(arts), feed_id |-> feed_id, article_url |-> article_url,
               headline |-> headline, fetched_timestamp |-> fetched_timestamp,
               lemmy_post_id |-> lemmy_post_id]}

\* INSERT OR IGNORE against article_url TEXT UNIQUE
add_article(arts, feed_id, article_url, headline, fetched_timestamp, lemmy_post_id) ==
    IF \E a \in arts : a.article_url = article_url THEN arts
    ELSE arts \cup {[id |-> NewRowid(arts), feed_id |-> feed_id, article_url |-> article_url,
                     headline |-> headline, fetched_timestamp |-> fetched_timestamp,
                     lemmy_post_id |-> lemmy_post_id]}

\* the UPDATE without its WHERE id = ?
update_article_post_id_all(arts, article_id, lemmy_post_id) ==
    {[a EXCEPT !.lemmy_post_id = lemmy_post_id] : a \in arts}

\* UPDATE rss_articles SET lemmy_post_id = ? WHERE id = ?
update_article_post_id(arts, article_id, lemmy_post_id) ==
    {IF a.id = article_id THEN [a EXCEPT !.lemmy_post_id = lemmy_post_id] ELSE a : a \in arts}

RECURSIVE SortByIdDesc(_)
SortByIdDesc(rows) ==
    IF rows = {} THEN <<>>
    ELSE LET r == CHOOSE x \in rows : \A y \in rows : x.id >= y.id
         IN <<r>> \o SortByIdDesc(rows \ {r})

\* ORDER BY id DESC LIMIT ?
get_articles_by_feed(arts, feed_id, limit) ==
    LET all == SortByIdDesc({a \in arts : a.feed_id = feed_id})
    IN IF Len(all) <= limit THEN all ELSE SubSeq(all, 1, limit)

\* the query without AND lemmy_post_id IS NULL
get_unposted_article_any(arts, feed_id) ==
    LET c == {a \in arts : a.feed_id = feed_id}
    IN {a \in c : \A b \in c : a.id <= b.id}

\* the query with ORDER BY id DESC
get_unposted_article_latest(arts, feed_id) ==
    LET c == {a \in arts : a.feed_id = feed_id /\ a.lemmy_post_id = NULL}
    IN {a \in c : \A b \in c : a.id >= b.id}

\* WHERE feed_id = ? AND lemmy_post_id IS NULL ORDER BY id ASC LIMIT 1
get_unposted_article(arts, feed_id) ==
    LET c == {a \in arts : a.feed_id = feed_id /\ a.lemmy_post_id = NULL}
    IN {a \in c : \A b \in c : a.id <= b.id}

\* an update that takes the first row of the community when there are several
update_feed_url_first(fs, community_name, new_feed_url, bot_username) ==
    LET all == {f \in fs : f.community_name = community_name}
        hit == {f \in all : \A g \in all : f.id <= g.id}
        new == {[f EXCEPT !.feed_url = new_feed_url,
                          !.bot_username = IF bot_username # None THEN bot_username ELSE @] : f \in hit}
    IN IF hit = {}
       THEN [raised |-> "ValueError", feeds |-> fs]
       ELSE IF \E f \in new : \E g \in fs \ hit :
                  g.feed_url = f.feed_url /\ g.community_id = f.community_id
       THEN [raised |-> "IntegrityError", feeds |-> fs]
       ELSE [raised |-> "no", feeds |-> (fs \ hit) \cup new]

\* UPDATE rss_feeds SET feed_url = ? [, bot_username = ?] WHERE community_name = ?
\* after the count of the rows of the community; the UPDATE aborts with an
\* IntegrityError when another row holds (new_feed_url, community_id) already
update_feed_url(fs, community_name, new_feed_url, bot_username) ==
    LET hit == {f \in fs : f.community_name = community_name}
        new == {[f EXCEPT !.feed_url = new_feed_url,
                          !.bot_username = IF bot_username # None THEN bot_username ELSE @] : f \in hit}
    IN IF Cardinality(hit) # 1
       THEN [raised |-> "ValueError", feeds |-> fs]
       ELSE IF \E f \in new : \E g \in fs \ hit :
                  g.feed_url = f.feed_url /\ g.community_id = f.community_id
       THEN [raised |-> "IntegrityError", feeds |-> fs]
       ELSE [raised |-> "no", feeds |-> (fs \ hit) \cup new]

\* a DELETE whose selectors are joined by OR
remove_feed_either(fs, community_name, feed_url) ==
    IF community_name = Omitted /\ feed_url = Omitted
    THEN [raised |-> TRUE, feeds |-> fs, changes |-> 0]
    ELSE LET hit == {f \in fs : \/ (community_name # Omitted /\ f.community_name = community_name)
                                \/ (feed_url # Omitted /\ f.feed_url = feed_url)}
         IN [raised |-> FALSE, feeds |-> fs \ hit, changes |-> Cardinality(hit)]

\* DELETE FROM rss_feeds WHERE <the supplied selectors>; returns conn.total_changes
remove_feed(fs, community_name, feed_url) ==
    IF community_name = Omitted /\ feed_url = Omitted
    THEN [raised |-> TRUE, feeds |-> fs, changes |-> 0]
    ELSE LET hit == {f \in fs : /\ (community_name # Omitted => f.community_name = community_name)
                                /\ (feed_url # Omitted => f.feed_url = feed_url)}
         IN [raised |-> FALSE, feeds |-> fs \ hit, changes |-> Cardinality(hit)]

--------------------------------------------------------------------------
(* Cadence estimator *)

Max2(a, b) == IF a >= b THEN a ELSE b
Min2(a, b) == IF a <= b THEN a ELSE b

RECURSIVE Insert(_, _)
Insert(x, s) ==
    IF s = <<>> THEN <<x>>
    ELSE IF x <= Head(s) THEN <<x>> \o s
    ELSE <<Head(s)>> \o Insert(x, Tail(s))

\* sorted(list)
RECURSIVE sorted(_)
sorted(s) == IF s = <<>> THEN <<>> ELSE Insert(Head(s), sorted(Tail(s)))

RECURSIVE SeqMax(_)
SeqMax(s) == IF Len(s) = 1 THEN s[1] ELSE Max2(s[1], SeqMax(Tail(s)))

\* statistics.median of a non-empty list; the mean of the two middle values is
\* exact whenever their sum is even
median(data) ==
    LET d == sorted(data)
        n == Len(d)
    IN IF n % 2 = 1 THEN d[(n + 1) \div 2]
       ELSE (d[n \div 2] + d[n \div 2 + 1]) \div 2

\* the published/updated dates of the entries that carry one
RECURSIVE EntryTimestamps(_)
EntryTimestamps(entries) ==
    IF entries = <<>> THEN <<>>
    ELSE (IF Head(entries).published # NULL THEN <<Head(entries).published>> ELSE <<>>)
         \o EntryTimestamps(Tail(entries))

\* `fetched` tells whether entries is a list (TRUE) or None (FALSE)
get_article_timestamps(arts, feed_id, fetched, entries) ==
    IF fetched THEN EntryTimestamps(entries)
    ELSE LET rows == get_articles_by_feed(arts, feed_id, 20)
         IN [i \in 1..Len(rows) |-> rows[i].fetched_timestamp]

\* the walk over the sorted timestamps: the recorded burst lengths
RECURSIVE BurstWalk(_, _, _)
BurstWalk(ts, burst_begin, burst_times) ==
    IF ts = <<>> THEN burst_times
    ELSE LET time_diff == Head(ts) - burst_begin
         IN IF time_diff >= MIN_BACKOFF
            THEN BurstWalk(Tail(ts), Head(ts), Append(burst_times, time_diff))
            ELSE BurstWalk(Tail(ts), burst_begin, burst_times)

BurstTimes(timestamps) ==
    LET st == sorted(timestamps)
    IN IF st = <<>> THEN <<>> ELSE BurstWalk(Tail(st), Head(st), <<>>)

\* a period that is the first burst length instead of the median
get_median_update_period_first(timestamps) ==
    IF timestamps = <<>> THEN SHORT_BACKOFF
    ELSE IF BurstTimes(timestamps) = <<>> THEN SHORT_BACKOFF
    ELSE BurstTimes(timestamps)[1]

get_median_update_period(timestamps) ==
    IF timestamps = <<>> THEN SHORT_BACKOFF
    ELSE IF BurstTimes(timestamps) = <<>> THEN SHORT_BACKOFF
    ELSE median(BurstTimes(timestamps))

\* datetime.replace(year=now.year, month=now.month, day=now.day)
ReplaceDate(t, today) == (today \div DAY) * DAY + (t % DAY)

\* an estimator that waits the short back-off when it knows no date
get_backoff_next_check_short(arts, feed_id, fetched, entries, t_now) ==
    IF get_article_timestamps(arts, feed_id, fetched, entries) = <<>> THEN t_now + SHORT_BACKOFF
    ELSE t_now + LONG_BACKOFF

\* an estimator that leaves the slow feed on today's date
get_backoff_next_check_today(arts, feed_id, fetched, entries, t_now) ==
    LET timestamps == get_article_timestamps(arts, feed_id, fetched, entries)
    IN IF timestamps = <<>> THEN t_now + LONG_BACKOFF
       ELSE IF t_now - SeqMax(timestamps) > MAX_BACKOFF
       THEN ReplaceDate(SeqMax(timestamps) + SHORT_BACKOFF, t_now)
       ELSE IF t_now - SeqMax(timestamps) < SHORT_BACKOFF
       THEN t_now + Min2(Max2(MIN_BACKOFF, get_median_update_period(timestamps)), LONG_BACKOFF)
       ELSE t_now + Min2(Max2(SHORT_BACKOFF, get_median_update_period(timestamps)), LONG_BACKOFF)

\* an estimator that knows no active period
get_backoff_next_check_inactive(arts, feed_id, fetched, entries, t_now) ==
    LET timestamps == get_article_timestamps(arts, feed_id, fetched, entries)
    IN IF timestamps = <<>> THEN t_now + LONG_BACKOFF
       ELSE IF t_now - SeqMax(timestamps) > MAX_BACKOFF
       THEN LET nct == ReplaceDate(SeqMax(timestamps) + SHORT_BACKOFF, t_now)
            IN IF nct < t_now THEN nct + DAY ELSE nct
       ELSE t_now + Min2(Max2(SHORT_BACKOFF, get_median_update_period(timestamps)), LONG_BACKOFF)

\* an estimator that waits the median period however long it is
get_backoff_next_check_uncapped(arts, feed_id, fetched, entries, t_now) ==
    LET timestamps == get_article_timestamps(arts, feed_id, fetched, entries)
    IN IF timestamps = <<>> THEN t_now + LONG_BACKOFF
       ELSE IF t_now - SeqMax(timestamps) > MAX_BACKOFF
       THEN LET nct == ReplaceDate(SeqMax(timestamps) + SHORT_BACKOFF, t_now)
            IN IF nct < t_now THEN nct + DAY ELSE nct
       ELSE IF t_now - SeqMax(timestamps) < SHORT_BACKOFF
       THEN t_now + Max2(MIN_BACKOFF, get_median_update_period(timestamps))
       ELSE t_now + Max2(SHORT_BACKOFF, get_median_update_period(timestamps))

get_backoff_next_check(arts, feed_id, fetched, entries, t_now) ==
    LET timestamps == get_article_timestamps(arts, feed_id, fetched, entries)
    IN IF timestamps = <<>> THEN t_now + LONG_BACKOFF
       ELSE LET most_recent_article == SeqMax(timestamps)
                time_since_last_article == t_now - most_recent_article
                update_period == get_median_update_period(timestamps)
            IN IF time_since_last_article > MAX_BACKOFF
               THEN LET nct == ReplaceDate(most_recent_article + SHORT_BACKOFF, t_now)
                    IN IF nct < t_now THEN nct + DAY ELSE nct
               ELSE IF time_since_last_article < SHORT_BACKOFF
               THEN t_now + Min2(Max2(MIN_BACKOFF, update_period), LONG_BACKOFF)
               ELSE t_now + Min2(Max2(SHORT_BACKOFF, update_period), LONG_BACKOFF)

--------------------------------------------------------------------------
(* Headlines.  A string is a sequence of characters; a character is a      *)
(* one-letter string, or the name of the code point that styling computes. *)

LowerCase == <<"a","b","c","d","e","f","g","h","i","j","k","l","m",
               "n","o","p","q","r","s","t","u","v","w","x","y","z">>
UpperCase == <<"A","B","C","D","E","F","G","H","I","J","K","L","M",
               "N","O","P","Q","R","S","T","U","V","W","X","Y","Z">>
Digits == <<"0","1","2","3","4","5","6","7","8","9">>

Range(f) == {f[i] : i \in DOMAIN f}
islower(c) == c \in Range(LowerCase)
isupper(c) == c \in Range(UpperCase)
isdigit(c) == c \in Range(Digits)
isalpha(c) == islower(c) \/ isupper(c)
\* U+3000 is the ideographic space
isspace(c) == c \in {" ", "\n", "\t", "U+3000"}
\* \w
isword(c) == isalpha(c) \/ isdigit(c) \/ c = "_"

\* len(char.encode('utf-8')): styled letters of <em> and <strong> lie in the
\* Mathematical Alphanumeric block (4 bytes); those computed from the subscript
\* and superscript tables in U+2070..U+209F (3 bytes), except the superscript
\* 1, 2, 3 of Latin-1 and what is counted from superscript one (2 bytes)
Utf8Len(c) ==
    IF \E x \in Range(LowerCase) \cup Range(UpperCase) : c \in {"em:" \o x, "strong:" \o x} THEN 4
    ELSE IF c = "U+1F600" THEN 4
    ELSE IF c = "U+3000" THEN 3
    ELSE IF \E x \in Range(UpperCase) : c = "sup:1+" \o x THEN 2
    ELSE IF c \in {"sup:[1]", "sup:[2]", "sup:[3]"} THEN 2
    ELSE IF \E x \in Range(LowerCase) \cup Range(UpperCase) \cup Range(Digits) :
              c \in {"sub:0+" \o x, "sub:1+" \o x, "sup:0+" \o x, "sub:[" \o x \o "]", "sup:[" \o x \o "]"} THEN 3
    ELSE 1

\* the largest member of a set of positions, 0 when there is none
Last(S) == CHOOSE m \in S \cup {0} : \A x \in S : x <= m
\* the smallest member of a set of positions, 0 when there is none
First(S) == CHOOSE m \in S \cup {0} : IF S = {} THEN m = 0 ELSE m \in S /\ \A x \in S : m <= x

\* len(s.encode('utf-8')), summed by halves
RECURSIVE ByteLen(_)
ByteLen(s) ==
    IF s = <<>> THEN 0
    ELSE IF Len(s) = 1 THEN Utf8Len(s[1])
    ELSE LET half == Len(s) \div 2
         IN ByteLen(SubSeq(s, 1, half)) + ByteLen(SubSeq(s, half + 1, Len(s)))

\* the longest prefix that the byte budget allows: the loop breaks at the
\* first character that would exceed it, so the prefixes that fit are the
\* first ones
TakeBytes(s, budget) ==
    LET fits == {k \in 1..Len(s) : ByteLen(SubSeq(s, 1, k)) <= budget}
    IN SubSeq(s, 1, Cardinality(fits))

RStrip(s) == SubSeq(s, 1, Last({k \in 1..Len(s) : ~isspace(s[k])}))

RStripWord(s) == SubSeq(s, 1, Last({k \in 1..Len(s) : isspace(s[k])}))

\* s.rsplit(None, 1)[0]; <<"IndexError">> stands for the exception on a blank s
RSplitHead(s) ==
    LET t == RStrip(s)
        h == RStrip(RStripWord(t))
    IN IF t = <<>> THEN <<"IndexError">>
       ELSE IF h = <<>> THEN SubSeq(t, Len(RStripWord(t)) + 1, Len(t))
       ELSE h

trim_headline(headline, max_bytes) ==
    IF ByteLen(headline) <= max_bytes THEN headline
    ELSE RSplitHead(TakeBytes(headline, max_bytes - 3)) \o <<".", ".", ".">>

\* does pat occur in s at position i
At(s, i, pat) == i + Len(pat) - 1 <= Len(s) /\ SubSeq(s, i, i + Len(pat) - 1) = pat

\* the first position >= i where pat occurs in s, 0 when there is none
Find(s, i, pat) == First({k \in i..(Len(s) - Len(pat) + 1) : At(s, k, pat)})

\* str.replace / re.sub of a literal
RECURSIVE Replace(_, _, _)
Replace(s, pat, by) ==
    LET i == Find(s, 1, pat)
    IN IF i = 0 THEN s
       ELSE SubSeq(s, 1, i - 1) \o by \o Replace(SubSeq(s, i + Len(pat), Len(s)), pat, by)

\* replace_styled_text: one character of the content of a styling tag
StyledChar(tag, c) ==
    IF isalpha(c)
    THEN IF islower(c)
         THEN (IF tag \in {"em", "strong"} THEN tag \o ":" \o c ELSE tag \o ":0+" \o c)
         ELSE (IF tag \in {"em", "strong"} THEN tag \o ":" \o c ELSE tag \o ":1+" \o c)
    ELSE IF isdigit(c) /\ tag \in {"sub", "sup"} THEN tag \o ":[" \o c \o "]"
    ELSE c

StyledText(tag, content) == [i \in 1..Len(content) |-> StyledChar(tag, content[i])]

StylingTags == <<"em", "strong", "sub", "sup">>
OpenTag(tag) == IF tag = "em" THEN <<"<","e","m",">">>
                ELSE IF tag = "strong" THEN <<"<","s","t","r","o","n","g",">">>
                ELSE IF tag = "sub" THEN <<"<","s","u","b",">">>
                ELSE <<"<","s","u","p",">">>
CloseTag(tag) == <<"<", "/">> \o Tail(OpenTag(tag))

\* re.sub(r'<(em|strong|sub|sup)>(.*?)</\1>', replace_styled_text, s)
RECURSIVE SubStyled(_)
SubStyled(s) ==
    LET hits(p) == {k \in 1..4 : /\ At(s, p, OpenTag(StylingTags[k]))
                                 /\ Find(s, p + Len(OpenTag(StylingTags[k])), CloseTag(StylingTags[k])) # 0}
        p == First({q \in 1..Len(s) : hits(q) # {}})
    IN IF p = 0 THEN s
       ELSE LET tag == StylingTags[CHOOSE k \in hits(p) : TRUE]
                open == p + Len(OpenTag(tag))
                close == Find(s, open, CloseTag(tag))
            IN SubSeq(s, 1, p - 1) \o StyledText(tag, SubSeq(s, open, close - 1))
               \o SubStyled(SubSeq(s, close + Len(CloseTag(tag)), Len(s)))

\* re.sub(r'<.*?>', '', s)
RECURSIVE StripTags(_)
StripTags(s) ==
    LET p == First({q \in 1..Len(s) : s[q] = "<" /\ Find(s, q + 1, <<">">>) # 0})
    IN IF p = 0 THEN s
       ELSE SubSeq(s, 1, p - 1) \o StripTags(SubSeq(s, Find(s, p + 1, <<">">>) + 1, Len(s)))

\* re.sub(r' *\|.*', '', s): cut at the run of spaces before the first bar
RStripSpaces(s) == SubSeq(s, 1, Last({k \in 1..Len(s) : s[k] # " "}))

CutAtBar(s) ==
    LET i == Find(s, 1, <<"|">>)
    IN IF i = 0 THEN s ELSE RStripSpaces(SubSeq(s, 1, i - 1))

\* does s, from position i on, match  \(\d+ \w+ \d+\)$
\* the first position from i on that is not of the kind
SkipWhile(s, i, kind) ==
    LET stops == {j \in i..(Len(s) + 1) :
                    j > Len(s) \/ ~(IF kind = "d" THEN isdigit(s[j]) ELSE IF kind = "w" THEN isword(s[j]) ELSE s[j] = " ")}
    IN IF stops = {} THEN i ELSE First(stops)

\* \d+ is possessive here (a space follows); \w+ gives back until a space follows
DateTail(s, i) ==
    /\ i <= Len(s) /\ s[i] = "("
    /\ LET d1 == SkipWhile(s, i + 1, "d")
       IN /\ d1 > i + 1 /\ d1 <= Len(s) /\ s[d1] = " "
          /\ LET w == SkipWhile(s, d1 + 1, "w")
             IN /\ w > d1 + 1 /\ w <= Len(s) /\ s[w] = " "
                /\ LET d2 == SkipWhile(s, w + 1, "d")
                   IN d2 > w + 1 /\ d2 = Len(s) /\ s[d2] = ")"

Pluralistic == <<"P","l","u","r","a","l","i","s","t","i","c",":">>

\* re.sub(r'^Pluralistic: +(.*?) +\(\d+ \w+ \d+\)$', r'\1', s)
StripPluralistic(s) ==
    IF ~At(s, 1, Pluralistic) THEN s
    ELSE LET b == SkipWhile(s, Len(Pluralistic) + 1, " ")
             \* ends of group 1: a space follows, and after the spaces the date
             ends == {e \in (b - 1)..Len(s) :
                        /\ e + 1 <= Len(s) /\ s[e + 1] = " "
                        /\ \E p \in (e + 2)..Len(s) :
                              /\ \A q \in (e + 1)..(p - 1) : s[q] = " "
                              /\ DateTail(s, p)}
         IN IF b = Len(Pluralistic) + 1 THEN s
            ELSE IF ends # {} THEN SubSeq(s, b, CHOOSE e \in ends : \A f \in ends : e <= f)
            \* the first run of spaces gives one back: group 1 is empty
            ELSE IF b >= Len(Pluralistic) + 3 /\ DateTail(s, b) THEN <<>>
            ELSE s

\* html.unescape, for the character references of the markup characters
Entities == << <<<<"&","a","m","p",";">>, "&">>, <<<<"&","l","t",";">>, "<">>,
               <<<<"&","g","t",";">>, ">">>, <<<<"&","q","u","o","t",";">>, "\"">> >>

RECURSIVE unescape(_)
unescape(s) ==
    LET hits(p) == {k \in DOMAIN Entities : At(s, p, Entities[k][1])}
        p == First({q \in 1..Len(s) : hits(q) # {}})
    IN IF p = 0 THEN s
       ELSE LET k == CHOOSE k \in hits(p) : TRUE
            IN SubSeq(s, 1, p - 1) \o <<Entities[k][2]>>
               \o unescape(SubSeq(s, p + Len(Entities[k][1]), Len(s)))

process_headline(headline) ==
    LET h1 == [i \in 1..Len(headline) |-> IF headline[i] = "\n" THEN " " ELSE headline[i]]
        h2 == SubStyled(h1)
        h3 == StripTags(h2)
        h4 == Replace(h3, <<"&","a","m","p",";">>, <<"&">>)
        h5 == CutAtBar(h4)
        h6 == StripPluralistic(h5)
    IN unescape(h6)

\* one alternative of BLACKLIST_REGEXES, r'Daily Deal:.*', under re.match
DailyDeal == <<"D","a","i","l","y"," ","D","e","a","l",":">>
Blacklisted(headline) == At(headline, 1, DailyDeal)

--------------------------------------------------------------------------
(* Feed fetcher *)

Entry(link, title, published) == [link |-> link, title |-> title, published |-> published]

\* the documents that the origins serve, as rss.entries in document order:
\* two fresh entries (newest first, and oldest first), one of them alone, a
\* stale entry, a blacklisted one beside a fresh one, and no entry
FeedDocs ==
    { <<>>,
      <<Entry("u1", PlainTitle, 5990)>>,
      <<Entry("u2", PlainTitle, 5996), Entry("u1", PlainTitle, 5990)>>,
      <<Entry("u1", PlainTitle, 5990), Entry("u2", PlainTitle, 5996)>>,
      <<Entry("u2", PlainTitle, 100)>>,
      <<Entry("u1", JunkTitle, 5996), Entry("u2", PlainTitle, 5996)>> }

\* the Last-Modified and ETag headers of a 200 response; None is a header not sent
ResponseHeaders == {<<None, None>>, <<"lm1", "e1">>}

\* what the origin server answers to the GET
Responses ==
    {[status |-> st, last_modified |-> None, etag |-> None, entries |-> <<>>] : st \in {"304", "error"}}
    \cup {[status |-> "200", last_modified |-> h[1], etag |-> h[2], entries |-> d] :
             h \in ResponseHeaders, d \in FeedDocs}

\* returns (rss, last_updated, etag); rss is None unless fetched
network_fetch(resp, last_updated, etag) ==
    IF resp.status # "200"
    THEN [fetched |-> FALSE, entries |-> <<>>, last_updated |-> last_updated, etag |-> etag]
    ELSE [fetched |-> TRUE, entries |-> resp.entries,
          last_updated |-> IF resp.last_modified = None THEN last_updated ELSE resp.last_modified,
          etag |-> IF resp.etag = None THEN etag ELSE resp.etag]

\* the body of the loop without the test against the post window
StageEntryAnyAge(arts, feed_id, entry, t_now) ==
    LET published_date == IF entry.published # NULL THEN entry.published ELSE t_now
    IN IF get_article_by_url(arts, entry.link) # {} THEN arts
       ELSE IF Blacklisted(entry.title) THEN arts
       ELSE add_article(arts, feed_id, entry.link, trim_headline(entry.title, 200), published_date, NULL)

\* the body of the loop of process_feed_entries for one entry
StageEntry(arts, feed_id, entry, t_now) ==
    LET published_date == IF entry.published # NULL THEN entry.published ELSE t_now
    IN IF get_article_by_url(arts, entry.link) # {} THEN arts
       ELSE IF published_date < t_now - POST_WINDOW THEN arts
       ELSE IF Blacklisted(entry.title) THEN arts
       ELSE add_article(arts, feed_id, entry.link, trim_headline(entry.title, 200), published_date, NULL)

\* for entry in reversed(rss.entries)
RECURSIVE process_feed_entries(_, _, _, _)
process_feed_entries(arts, feed_id, entries, t_now) ==
    IF entries = <<>> THEN arts
    ELSE process_feed_entries(StageEntry(arts, feed_id, entries[Len(entries)], t_now),
                              feed_id, SubSeq(entries, 1, Len(entries) - 1), t_now)

--------------------------------------------------------------------------
(* The Lemmy server, as the calls of LemmyCommunicator see it *)

\* a community name is <<name, instance>>; the instance is "" when the name has no @
Person(name, instance) == [name |-> name, instance |-> instance]

\* the communities of the server, their ids and their moderators
RemoteCommunities == {<<"foo", LEMMY_SERVER>>, <<"bar", LEMMY_SERVER>>}
RemoteId(c) == IF c = <<"foo", LEMMY_SERVER>> THEN 1 ELSE 2
RemoteModerators(c) == IF c = <<"foo", LEMMY_SERVER>> THEN {Person("alice", LEMMY_SERVER)}
                       ELSE {Person("bob", LEMMY_SERVER)}

\* the server reads a name without instance as a local community
Canonical(community_name) ==
    IF community_name[2] = "" THEN <<community_name[1], LEMMY_SERVER>> ELSE community_name

\* the community, or None: here the set is empty
resolve_community(community_name) == {community_name} \cap RemoteCommunities

\* raises for a community that does not exist
fetch_community_id(community_name) ==
    IF Canonical(community_name) \in RemoteCommunities
    THEN [raised |-> FALSE, id |-> RemoteId(Canonical(community_name))]
    ELSE [raised |-> TRUE, id |-> NULL]

\* raises when the answer holds no moderators
fetch_community_moderators(community_name) ==
    IF Canonical(community_name) \in RemoteCommunities
    THEN [raised |-> FALSE, moderators |-> RemoteModerators(Canonical(community_name))]
    ELSE [raised |-> TRUE, moderators |-> {}]

check_moderator(user_name, community_name) ==
    LET r == fetch_community_moderators(community_name)
    IN [raised |-> r.raised, ok |-> \E mod \in r.moderators : mod.name = user_name]

--------------------------------------------------------------------------
(* Command processor.  A message body is a sequence of lines, each holding  *)
(* one /command: [command, args].  A reply is a sequence of reply items.    *)

Reply(kind, arg, n) == [kind |-> kind, arg |-> arg, n |-> n]
NoArg == <<>>

\* if '@' not in community_name: community_name = f"{community_name}@{Config.LEMMY_SERVER}"
WithDefault(community_name) ==
    IF community_name[2] = "" THEN <<community_name[1], LEMMY_SERVER>> ELSE community_name

\* the state a command leaves: the feed table, the reply so far, the calls of
\* add_feed and remove_feed made so far
CmdState(fs, response, calls) == [feeds |-> fs, response |-> response, calls |-> calls]

AddCommand(st, args, sender_name, bot_username) ==
    LET r0 == Append(st.response, Reply("> /add", NoArg, 0))
    IN IF Len(args) # 2 THEN CmdState(st.feeds, Append(r0, Reply("Invalid number of arguments", NoArg, 0)), st.calls)
       ELSE LET rss_url == args[1]
                community_name == WithDefault(args[2])
                cm == check_moderator(sender_name, community_name)
                cid == fetch_community_id(community_name)
                r1 == IF cm.ok THEN r0 ELSE Append(r0, Reply("must be a moderator", community_name, 0))
            IN IF resolve_community(community_name) = {}
               THEN CmdState(st.feeds, Append(r0, Reply("Could not find", community_name, 0)), st.calls)
               ELSE IF cm.raised
               THEN CmdState(st.feeds, Append(r0, Reply("An error occurred", NoArg, 0)), st.calls)
               ELSE IF cid.raised
               THEN CmdState(st.feeds, Append(r1, Reply("An error occurred", NoArg, 0)), st.calls)
               ELSE CmdState(add_feed(st.feeds, rss_url, community_name, cid.id, None, None, NULL, bot_username),
                             Append(r1, Reply("Added", rss_url, 0)),
                             Append(st.calls, [op |-> "add_feed", community_name |-> community_name,
                                               feed_url |-> rss_url, changes |-> 0]))

DeleteCommand(st, args, sender_name) ==
    LET r0 == Append(st.response, Reply("> /delete", NoArg, 0))
    IN IF Len(args) # 2 THEN CmdState(st.feeds, Append(r0, Reply("Invalid number of arguments", NoArg, 0)), st.calls)
       ELSE LET rss_url == args[1]
                community == args[2]
                cm == check_moderator(sender_name, community)
                rm == remove_feed(st.feeds, community, rss_url)
            IN IF cm.raised
               THEN CmdState(st.feeds, Append(r0, Reply("An error occurred", NoArg, 0)), st.calls)
               ELSE IF ~cm.ok
               THEN CmdState(st.feeds, Append(r0, Reply("must be a moderator", community, 0)), st.calls)
               ELSE CmdState(rm.feeds,
                             Append(r0, IF rm.changes = 0 THEN Reply("No feed found", rss_url, 0)
                                        ELSE Reply("Deleted", community, rm.changes)),
                             Append(st.calls, [op |-> "remove_feed", community_name |-> community,
                                               feed_url |-> rss_url, changes |-> rm.changes]))

\* the "* <feed_url>" lines of /list, the first one carrying the heading
RECURSIVE ListLines(_, _, _)
ListLines(all_feeds, community, count) ==
    IF all_feeds = <<>> THEN <<>>
    ELSE LET feed == Head(all_feeds)
             feed_community == IF feed.community_name[2] # "" THEN feed.community_name
                               ELSE <<feed.community_name[1], LEMMY_SERVER>>
         IN IF feed_community = community
            THEN <<Reply(IF count = 0 THEN "Feeds active for: *" ELSE "*", feed.feed_url, 0)>>
                 \o ListLines(Tail(all_feeds), community, count + 1)
            ELSE ListLines(Tail(all_feeds), community, count)

ListCommand(st, args) ==
    LET r0 == Append(st.response, Reply("> /list", NoArg, 0))
    IN IF Len(args) # 1 THEN CmdState(st.feeds, Append(r0, Reply("Invalid number of arguments", NoArg, 0)), st.calls)
       ELSE LET lines == ListLines(list_feeds(st.feeds), args[1], 0)
            IN CmdState(st.feeds,
                        IF lines = <<>> THEN Append(r0, Reply("No feeds found", args[1], 0)) ELSE r0 \o lines,
                        st.calls)

\* the body of the loop over the lines of a message
RunCommand(st, line, sender_name, bot_username) ==
    IF line.command = "add" THEN AddCommand(st, line.args, sender_name, bot_username)
    ELSE IF line.command = "delete" THEN DeleteCommand(st, line.args, sender_name)
    ELSE IF line.command = "list" THEN ListCommand(st, line.args)
    ELSE IF line.command = "help"
    THEN CmdState(st.feeds, st.response \o <<Reply("> /help", NoArg, 0), Reply("help text", NoArg, 0)>>, st.calls)
    ELSE CmdState(st.feeds, st.response \o <<Reply("> /?", NoArg, 0), Reply("Unknown command", NoArg, 0)>>, st.calls)

\* a loop that leaves the message at the first command that raised
RECURSIVE RunLinesStop(_, _, _, _)
RunLinesStop(st, content, sender_name, bot_username) ==
    IF content = <<>> THEN st
    ELSE LET after == RunCommand(st, Head(content), sender_name, bot_username)
         IN IF after.response[Len(after.response)].kind = "An error occurred" THEN after
            ELSE RunLinesStop(after, Tail(content), sender_name, bot_username)

RECURSIVE RunLines(_, _, _, _)
RunLines(st, content, sender_name, bot_username) ==
    IF content = <<>> THEN st
    ELSE RunLines(RunCommand(st, Head(content), sender_name, bot_username),
                  Tail(content), sender_name, bot_username)

process_commands(fs, content, sender_name, bot_username) ==
    LET st == RunLines(CmdState(fs, <<>>, <<>>), content, sender_name, bot_username)
    IN IF st.response = <<>>
       THEN CmdState(st.feeds, <<Reply("No commands found", NoArg, 0), Reply("help text", NoArg, 0)>>, st.calls)
       ELSE st

\* the unread private messages of one bot, as get_private_messages lists them
Unread(inb, bot_username) == SortById({pm \in inb : pm.to = bot_username})

\* the state of the mailboxes and of the feed table while messages are processed
MailState(fs, inb, outb, calls) == [feeds |-> fs, inbox |-> inb, outbox |-> outb, calls |-> calls]

\* a loop that answers and does not mark the message as read
RECURSIVE AnswerAllNoMark(_, _, _)
AnswerAllNoMark(ms, pms, bot_username) ==
    IF pms = <<>> THEN ms
    ELSE LET pm == Head(pms)
             r == process_commands(ms.feeds, pm.content, pm.creator.name, bot_username)
         IN AnswerAllNoMark(MailState(r.feeds, ms.inbox,
                                      Append(ms.outbox, [from |-> bot_username, recipient |-> pm.creator,
                                                         re |-> pm.id, content |-> r.response]),
                                      ms.calls),
                            Tail(pms), bot_username)

\* one pass of the loop over private_messages: answer, mark as read, send the answer
RECURSIVE AnswerAll(_, _, _)
AnswerAll(ms, pms, bot_username) ==
    IF pms = <<>> THEN ms
    ELSE LET pm == Head(pms)
             r == process_commands(ms.feeds, pm.content, pm.creator.name, bot_username)
         IN AnswerAll(MailState(r.feeds, ms.inbox \ {pm},
                                Append(ms.outbox, [from |-> bot_username, recipient |-> pm.creator,
                                                   re |-> pm.id, content |-> r.response]),
                                ms.calls \o [i \in 1..Len(r.calls) |->
                                                [op |-> r.calls[i].op, community_name |-> r.calls[i].community_name,
                                                 feed_url |-> r.calls[i].feed_url, changes |-> r.calls[i].changes,
                                                 sender |-> pm.creator]]),
                          Tail(pms), bot_username)

process_messages_and_mentions(ms, bot_username) == AnswerAll(ms, Unread(ms.inbox, bot_username), bot_username)

\* for bot_username, api in lemmy_apis.items(): process_messages_and_mentions(api, db, bot_username)
RECURSIVE PollAll(_, _)
PollAll(ms, bots) ==
    IF bots = <<>> THEN ms
    ELSE PollAll(process_messages_and_mentions(ms, Head(bots)), Tail(bots))

--------------------------------------------------------------------------
(* Inputs of a run *)

\* the stores the scheduler may start on: what `feed_manager.py add` leaves,
\* db.add_feed(feed_url, community_name, community_id, bot_username=...)
CliAdd(fs, feed_url, community_name, bot_username) ==
    add_feed(fs, feed_url, community_name, fetch_community_id(community_name).id, None, None, NULL, bot_username)

InitialStores ==
    { {},
      CliAdd({}, <<"x", "rss">>, <<"foo", "">>, "free"),
      CliAdd(CliAdd({}, <<"x", "rss">>, <<"foo", "">>, "free"), <<"y", "rss">>, <<"bar", LEMMY_SERVER>>, "bot") }

Line(command, args) == [command |-> command, args |-> args]
Message(creator, to, content) == [creator |-> creator, to |-> to, content |-> content]

\* the private messages that are sent to the bots: alice@srv moderates foo,
\* alice@other and bob@srv do not
Messages ==
    { Message(Person("alice", LEMMY_SERVER), "bot", <<Line("delete", <<<<"x", "rss">>, <<"foo", "">>>>)>>),
      Message(Person("alice", "other"), "bot", <<Line("delete", <<<<"x", "rss">>, <<"foo", "">>>>)>>),
      Message(Person("bob", LEMMY_SERVER), "bot", <<Line("delete", <<<<"x", "rss">>, <<"foo", "">>>>)>>),
      Message(Person("alice", LEMMY_SERVER), "bot", <<Line("add", <<<<"x", "rss">>, <<"foo", "">>>>)>>),
      Message(Person("bob", LEMMY_SERVER), "bot", <<Line("add", <<<<"y", "rss">>, <<"foo", LEMMY_SERVER>>>>)>>) }

\* the length of one pass of the sleep loop: time.sleep(60) and the polling of
\* three mailboxes, each call behind REQUEST_DELAY and the 429/503 back-off;
\* a pass takes at least the minute it sleeps; the model lets it take five
SliceDurations == {d \in {MIN_BACKOFF} : d >= MESSAGE_POLL_INTERVAL}

--------------------------------------------------------------------------
(* The scheduler: fetch_and_post() *)

\* crashes: terminations so far; msgs: messages sent so far; lost_acks: the
\* links whose post was created when the process died before recording it;
\* set_calls: the calls of update_article_post_id, <<feed id, article id>>;
\* iter_posts: the feeds create_post was called for in this outer iteration;
\* db_calls: the add_feed and remove_feed calls of the last polling that found
\* messages; dup_adds: <<feed id, link>> of every direct add_article call for
\* a link that a row already held; iter_fetches: the calls of network_fetch in
\* this outer iteration: the feed's id, its host, and whether a document came;
\* iter_passed: the ids of the due feeds that this outer iteration passed over
\* because their host was hit; passed: the same of the iteration before
NoHist == [crashes |-> 0, msgs |-> 0, lost_acks |-> {}, set_calls |-> <<>>,
           iter_posts |-> <<>>, db_calls |-> <<>>, dup_adds |-> {}, iter_fetches |-> <<>>,
           iter_passed |-> {}, passed |-> {}, staged |-> {}]

Fetch(feed, nf) == [id |-> feed.id, host |-> feed.feed_url[1], ok |-> nf.fetched]

Init ==
    /\ feeds \in InitialStores
    /\ articles = {}
    /\ now = StartTime
    /\ pc = "start"
    /\ feed_list = <<>>
    /\ idx = 0
    /\ next_loop = NULL
    /\ hit_servers = {}
    /\ cur = <<>>
    /\ remote_posts = <<>>
    /\ inbox = {}
    /\ outbox = <<>>
    /\ hist = NoHist

SetMin(S) == CHOOSE m \in S : \A x \in S : m <= x

\* feeds = db.list_feeds() and the sleep target
BeginIteration ==
    /\ pc = "start"
    /\ feed_list' = list_feeds(feeds)
    /\ LET next_check_times == {f.next_check : f \in {g \in feeds : g.next_check # NULL}}
       IN next_loop' = IF next_check_times # {} THEN SetMin(next_check_times) ELSE now + MIN_BACKOFF
    /\ pc' = "sleep"
    /\ idx' = 0
    /\ hist' = [hist EXCEPT !.iter_posts = <<>>, !.iter_fetches = <<>>,
                            !.passed = hist.iter_passed, !.iter_passed = {}]
    /\ UNCHANGED <<feeds, articles, now, hit_servers, cur, remote_posts, inbox, outbox>>

\* the polling of every bot's mailbox at instant t
Poll ==
    LET ms == PollAll(MailState(feeds, inbox, outbox, <<>>), Bots)
    IN /\ feeds' = ms.feeds
       /\ inbox' = ms.inbox
       /\ outbox' = ms.outbox
       /\ hist' = [hist EXCEPT !.db_calls = IF inbox = {} THEN @ ELSE ms.calls]

\* one pass of `while datetime.now(timezone.utc) < next_loop`
SleepSlice ==
    /\ pc = "sleep"
    /\ now < next_loop
    /\ \E d \in SliceDurations : now + d <= MaxNow /\ now' = now + d
    /\ Poll
    /\ UNCHANGED <<articles, pc, feed_list, idx, next_loop, hit_servers, cur, remote_posts>>

\* the else clause of the while loop, then hit_servers = set()
WakeUp ==
    /\ pc = "sleep"
    /\ now >= next_loop
    /\ Poll
    /\ hit_servers' = {}
    /\ idx' = 1
    /\ pc' = IF feed_list = <<>> THEN "start" ELSE "feeds"
    /\ UNCHANGED <<articles, now, feed_list, next_loop, cur, remote_posts>>

\* the step of the for loop to the next feed
Advance ==
    /\ idx' = idx + 1
    /\ pc' = IF idx + 1 > Len(feed_list) THEN "start" ELSE "feeds"

\* the end of the per-feed procedure: the choice of next_check and its write
Reschedule(fs, arts, feed_id, last_updated, etag, fetched, entries, t_now) ==
    IF get_unposted_article(arts, feed_id) # {}
    THEN update_feed_timestamps(fs, feed_id, last_updated, etag, t_now + MIN_BACKOFF)
    ELSE update_feed_timestamps(fs, feed_id, last_updated, etag,
                                get_backoff_next_check(arts, feed_id, fetched, entries, t_now))

\* the skip conditions without the one on the host
SkippedHostBlind(feed, t_now, hit) ==
    \/ (community_filter # {} /\ feed.community_name \notin community_filter)
    \/ (feed.next_check # NULL /\ feed.next_check > t_now)

\* the skip conditions without the one on next_check
SkippedTimeBlind(feed, t_now, hit) ==
    \/ (community_filter # {} /\ feed.community_name \notin community_filter)
    \/ feed.feed_url[1] \in hit

\* is the feed passed over: the community filter, next_check in the future, the host already hit
Skipped(feed, t_now, hit) ==
    \/ (community_filter # {} /\ feed.community_name \notin community_filter)
    \/ (feed.next_check # NULL /\ feed.next_check > t_now)
    \/ feed.feed_url[1] \in hit

\* is a feed that is passed over passed over only because of its host
PassedForHost(feed, t_now) ==
    /\ ~(community_filter # {} /\ feed.community_name \notin community_filter)
    /\ ~(feed.next_check # NULL /\ feed.next_check > t_now)

\* the feed that is passed over is given a new next_check
SkipFeedTouch ==
    /\ pc = "feeds"
    /\ LET feed == feed_list[idx]
       IN /\ Skipped(feed, now, hit_servers)
          /\ hit_servers' = hit_servers
          /\ feeds' = update_feed_timestamps(feeds, feed.id, feed.last_updated_header, feed.etag,
                                             now + MIN_BACKOFF)
          /\ hist' = [hist EXCEPT !.iter_passed = IF PassedForHost(feed, now)
                                                  THEN @ \cup {feed.id} ELSE @]
    /\ Advance
    /\ UNCHANGED <<articles, now, feed_list, next_loop, cur, remote_posts, inbox, outbox>>

SkipFeed ==
    /\ pc = "feeds"
    /\ LET feed == feed_list[idx]
       IN /\ Skipped(feed, now, hit_servers)
          /\ hit_servers' = hit_servers
          /\ hist' = [hist EXCEPT !.iter_passed = IF PassedForHost(feed, now)
                                                  THEN @ \cup {feed.id} ELSE @]
    /\ Advance
    /\ UNCHANGED <<feeds, articles, now, feed_list, next_loop, cur, remote_posts, inbox, outbox>>

\* the feed is fetched whether or not it has a backlog
NeedsFetchAlways(unposted_article) == TRUE

\* if not unposted_article: the feed is fetched only when it has no backlog
NeedsFetch(unposted_article) == unposted_article = {}

\* the call of create_post for the article is sent
StartPost(feed, article, last_updated, etag, fetched, entries) ==
    /\ cur' = <<[feed |-> feed, article |-> article, headline |-> process_headline(article.headline),
                 last_updated |-> last_updated, etag |-> etag, fetched |-> fetched,
                 entries |-> entries, lemmy_post_id |-> NULL]>>
    /\ pc' = "create_post"
    /\ idx' = idx

\* a due feed with a backlog: no fetch, the earliest unposted article is posted
ProcessBacklog ==
    /\ pc = "feeds"
    /\ LET feed == feed_list[idx]
           unposted_article == get_unposted_article(articles, feed.id)
       IN /\ ~Skipped(feed, now, hit_servers)
          /\ ~NeedsFetch(unposted_article)
          /\ hit_servers' = hit_servers \cup {feed.feed_url[1]}
          /\ StartPost(feed, CHOOSE a \in unposted_article : TRUE,
                       feed.last_updated_header, feed.etag, FALSE, <<>>)
          /\ hist' = [hist EXCEPT !.iter_posts = Append(@, feed.id)]
    /\ UNCHANGED <<feeds, articles, now, feed_list, next_loop, remote_posts, inbox, outbox>>

\* the rows that a fetch of the feed has added, each with the feed it was staged for
StagedBy(feed, before, after) ==
    {[article_url |-> a.article_url, feed_url |-> feed.feed_url, community_id |-> feed.community_id] :
        a \in after \ before}

\* a due feed without backlog: the fetch, the staging of its entries, and then
\* either the call of create_post or, with nothing to post, the new next_check
FetchFeedFrom(responses) ==
    /\ pc = "feeds"
    /\ LET feed == feed_list[idx]
       IN /\ ~Skipped(feed, now, hit_servers)
          /\ NeedsFetch(get_unposted_article(articles, feed.id))
          /\ hit_servers' = hit_servers \cup {feed.feed_url[1]}
          /\ \E resp \in responses :
                LET nf == network_fetch(resp, feed.last_updated_header, feed.etag)
                    arts == IF nf.fetched THEN process_feed_entries(articles, feed.id, nf.entries, now)
                            ELSE articles
                    unposted_article == IF nf.fetched THEN get_unposted_article(arts, feed.id) ELSE {}
                IN /\ articles' = arts
                   /\ IF unposted_article # {}
                      THEN /\ StartPost(feed, CHOOSE a \in unposted_article : TRUE,
                                        nf.last_updated, nf.etag, nf.fetched, nf.entries)
                           /\ feeds' = feeds
                           /\ hist' = [hist EXCEPT !.iter_posts = Append(@, feed.id),
                                                   !.iter_fetches = Append(@, Fetch(feed, nf)),
                                                   !.staged = @ \cup StagedBy(feed, articles, arts)]
                      ELSE /\ feeds' = Reschedule(feeds, arts, feed.id, nf.last_updated, nf.etag,
                                                  nf.fetched, nf.entries, now)
                           /\ Advance
                           /\ cur' = cur
                           /\ hist' = [hist EXCEPT !.iter_fetches = Append(@, Fetch(feed, nf)),
                                                   !.staged = @ \cup StagedBy(feed, articles, arts)]
    /\ UNCHANGED <<now, feed_list, next_loop, remote_posts, inbox, outbox>>

\* the fetch of a due feed, answered by any of the origin's responses
FetchFeed == FetchFeedFrom(Responses)

\* create_post returns the post that the server created
CreatePostReturns ==
    /\ pc = "create_post"
    /\ LET c == cur[1]
       IN /\ remote_posts' = Append(remote_posts, [community_id |-> c.feed.community_id,
                                                   name |-> c.headline, url |-> c.article.article_url])
          /\ cur' = <<[c EXCEPT !.lemmy_post_id = Len(remote_posts) + 1]>>
    /\ pc' = "posted"
    /\ UNCHANGED <<feeds, articles, now, feed_list, idx, next_loop, hit_servers, inbox, outbox, hist>>

\* create_post raises and nothing catches it in the loop over the feeds:
\* fetch_and_post is left, and main() starts it again
CreatePostRaisesUncaught ==
    /\ pc = "create_post"
    /\ pc' = "start"
    /\ feed_list' = <<>>
    /\ idx' = 0
    /\ next_loop' = NULL
    /\ hit_servers' = {}
    /\ cur' = <<>>
    /\ hist' = [hist EXCEPT !.iter_posts = <<>>, !.iter_fetches = <<>>,
                            !.iter_passed = {}, !.passed = {}]
    /\ UNCHANGED <<feeds, articles, now, remote_posts, inbox, outbox>>

\* create_post raises: except Exception ... continue
CreatePostRaises ==
    /\ pc = "create_post"
    /\ cur' = <<>>
    /\ Advance
    /\ UNCHANGED <<feeds, articles, now, feed_list, next_loop, hit_servers, remote_posts, inbox, outbox, hist>>

\* `while unposted_article:` in place of `if`: after a post the next article
\* of the backlog is posted at once
RecordPostDrain ==
    /\ pc = "posted"
    /\ LET c == cur[1]
           arts == update_article_post_id(articles, c.article.id, c.lemmy_post_id)
           unposted_article == get_unposted_article(arts, c.feed.id)
       IN /\ articles' = arts
          /\ IF unposted_article # {}
             THEN /\ StartPost(c.feed, CHOOSE a \in unposted_article : TRUE,
                               c.last_updated, c.etag, c.fetched, c.entries)
                  /\ feeds' = feeds
                  /\ hist' = [hist EXCEPT !.set_calls = Append(@, <<c.feed.id, c.article.id>>),
                                          !.iter_posts = Append(@, c.feed.id)]
             ELSE /\ feeds' = Reschedule(feeds, arts, c.feed.id, c.last_updated, c.etag,
                                         c.fetched, c.entries, now)
                  /\ hist' = [hist EXCEPT !.set_calls = Append(@, <<c.feed.id, c.article.id>>)]
                  /\ cur' = <<>>
                  /\ Advance
    /\ UNCHANGED <<now, feed_list, next_loop, hit_servers, remote_posts, inbox, outbox>>

\* update_article_post_id, then the new next_check
RecordPost ==
    /\ pc = "posted"
    /\ LET c == cur[1]
           arts == IF c.lemmy_post_id # NULL
                   THEN update_article_post_id(articles, c.article.id, c.lemmy_post_id)
                   ELSE articles
       IN /\ articles' = arts
          /\ feeds' = Reschedule(feeds, arts, c.feed.id, c.last_updated, c.etag, c.fetched, c.entries, now)
          /\ hist' = [hist EXCEPT !.set_calls = IF c.lemmy_post_id # NULL
                                                 THEN Append(@, <<c.feed.id, c.article.id>>) ELSE @]
    /\ cur' = <<>>
    /\ Advance
    /\ UNCHANGED <<now, feed_list, next_loop, hit_servers, remote_posts, inbox, outbox>>

\* the process is terminated and started again; the store and the server remain
Crash ==
    /\ pc # "start"
    /\ hist.crashes < MaxCrashes
    /\ pc' = "start"
    /\ feed_list' = <<>>
    /\ idx' = 0
    /\ next_loop' = NULL
    /\ hit_servers' = {}
    /\ cur' = <<>>
    /\ hist' = [hist EXCEPT !.crashes = @ + 1,
                            !.iter_posts = <<>>,
                            !.iter_fetches = <<>>,
                            !.iter_passed = {},
                            !.passed = {},
                            !.lost_acks = IF pc = "posted" THEN @ \cup {cur[1].article.article_url} ELSE @]
    /\ UNCHANGED <<feeds, articles, now, remote_posts, inbox, outbox>>

\* somebody writes to a bot while it sleeps
SendMessage ==
    /\ pc = "sleep"
    /\ hist.msgs < MaxMsgs
    /\ \E m \in Messages :
          inbox' = inbox \cup {[id |-> hist.msgs + 1, to |-> m.to, creator |-> m.creator, content |-> m.content]}
    /\ hist' = [hist EXCEPT !.msgs = @ + 1]
    /\ UNCHANGED <<feeds, articles, now, pc, feed_list, idx, next_loop, hit_servers, cur, remote_posts, outbox>>

\* a direct call of RSSFeedDB.add_article, with any arguments
AddArticleArgs == [feed_id : {1, 2}, article_url : {"u1", "u2"}, headline : {PlainTitle},
                   fetched_timestamp : {5990}, lemmy_post_id : {NULL, 9}]

AddArticleCall ==
    /\ \E c \in AddArticleArgs :
          /\ articles' = add_article(articles, c.feed_id, c.article_url, c.headline,
                                     c.fetched_timestamp, c.lemmy_post_id)
          /\ hist' = [hist EXCEPT !.dup_adds = IF get_article_by_url(articles, c.article_url) # {}
                                                THEN @ \cup {<<c.feed_id, c.article_url>>} ELSE @]
    /\ UNCHANGED <<feeds, now, pc, feed_list, idx, next_loop, hit_servers, cur, remote_posts, inbox, outbox>>

\* one step of fetch_and_post
Scheduler ==
    \/ BeginIteration
    \/ SleepSlice
    \/ WakeUp
    \/ SkipFeed
    \/ ProcessBacklog
    \/ FetchFeed
    \/ CreatePostReturns
    \/ CreatePostRaises
    \/ RecordPost

Next ==
    \/ Scheduler
    \/ Crash
    \/ SendMessage

Spec == Init /\ [][Next]_vars

\* the scheduler beside a caller of the persistence layer
NextStore ==
    \/ Scheduler
    \/ AddArticleCall

SpecStore == Init /\ [][NextStore]_vars

\* the stores with feeds that share a host
HostStores ==
    { CliAdd(CliAdd({}, <<"x", "rss">>, <<"foo", "">>, "free"), <<"x", "atom">>, <<"bar", LEMMY_SERVER>>, "bot"),
      CliAdd(CliAdd(CliAdd({}, <<"x", "rss">>, <<"foo", "">>, "free"),
                    <<"y", "rss">>, <<"bar", LEMMY_SERVER>>, "bot"),
             <<"x", "atom">>, <<"bar", LEMMY_SERVER>>, "bot") }

InitHosts ==
    /\ feeds \in HostStores
    /\ articles = {}
    /\ now = StartTime
    /\ pc = "start"
    /\ feed_list = <<>>
    /\ idx = 0
    /\ next_loop = NULL
    /\ hit_servers = {}
    /\ cur = <<>>
    /\ remote_posts = <<>>
    /\ inbox = {}
    /\ outbox = <<>>
    /\ hist = NoHist

\* the scheduler alone on such a store
SpecHosts == InitHosts /\ [][Scheduler]_vars

\* the store that an earlier run has left: the feed was fetched, its validators
\* are stored, and it is due again
ReuseStores ==
    { update_feed_timestamps(CliAdd({}, <<"x", "rss">>, <<"foo", "">>, "free"), 1, "lm1", "e1", StartTime) }

\* messages of the moderator of foo that remove a feed and add one
ReuseMessages ==
    { Message(Person("alice", LEMMY_SERVER), "bot", <<Line("delete", <<<<"x", "rss">>, <<"foo", "">>>>)>>),
      Message(Person("alice", LEMMY_SERVER), "bot", <<Line("delete", <<<<"x", "rss">>, <<"foo", "">>>>),
                                                      Line("add", <<<<"y", "rss">>, <<"foo", "">>>>)>>),
      Message(Person("alice", LEMMY_SERVER), "bot", <<Line("add", <<<<"y", "rss">>, <<"foo", "">>>>)>>) }

InitReuse ==
    /\ feeds \in ReuseStores
    /\ articles = {}
    /\ now = StartTime
    /\ pc = "start"
    /\ feed_list = <<>>
    /\ idx = 0
    /\ next_loop = NULL
    /\ hit_servers = {}
    /\ cur = <<>>
    /\ remote_posts = <<>>
    /\ inbox = {}
    /\ outbox = <<>>
    /\ hist = NoHist

\* the moderator writes to the bot while it sleeps
SendReuse ==
    /\ pc = "sleep"
    /\ hist.msgs < MaxMsgs
    /\ \E m \in ReuseMessages :
          inbox' = inbox \cup {[id |-> hist.msgs + 1, to |-> m.to, creator |-> m.creator, content |-> m.content]}
    /\ hist' = [hist EXCEPT !.msgs = @ + 1]
    /\ UNCHANGED <<feeds, articles, now, pc, feed_list, idx, next_loop, hit_servers, cur, remote_posts, outbox>>

NextReuse ==
    \/ Scheduler
    \/ SendReuse

\* the scheduler on such a store, beside the moderator
SpecReuse == InitReuse /\ [][NextReuse]_vars

\* the stores the command processor works on
MailStores ==
    { {},
      CliAdd({}, <<"x", "rss">>, <<"foo", "">>, "free"),
      CliAdd(CliAdd({}, <<"x", "rss">>, <<"foo", LEMMY_SERVER>>, "free"), <<"y", "rss">>, <<"bar", LEMMY_SERVER>>, "bot") }

\* the most messages that are sent to the bots
MaxMail == 2

\* messages of several lines, and one without a command; the community nosuch
\* does not exist, so the look-up of its moderators raises; two messages add
\* a feed and delete it with the same arguments
MailMessages ==
    { Message(Person("alice", LEMMY_SERVER), "bot", <<Line("add", <<<<"x", "rss">>, <<"foo", "">>>>),
                                                      Line("list", <<<<"foo", "">>>>)>>),
      Message(Person("alice", LEMMY_SERVER), "bot", <<Line("delete", <<<<"x", "rss">>, <<"nosuch", "">>>>),
                                                      Line("add", <<<<"y", "rss">>, <<"foo", "">>>>),
                                                      Line("list", <<<<"foo", LEMMY_SERVER>>>>)>>),
      Message(Person("bob", LEMMY_SERVER), "free", <<>>),
      Message(Person("alice", LEMMY_SERVER), "free", <<Line("list", <<<<"foo", LEMMY_SERVER>>>>),
                                                       Line("help", <<>>)>>),
      Message(Person("alice", LEMMY_SERVER), "bot", <<Line("add", <<<<"z", "rss">>, <<"foo", "">>>>),
                                                      Line("delete", <<<<"z", "rss">>, <<"foo", "">>>>)>>),
      Message(Person("alice", LEMMY_SERVER), "bot", <<Line("add", <<<<"z", "rss">>, <<"foo", LEMMY_SERVER>>>>),
                                                      Line("delete", <<<<"z", "rss">>, <<"foo", LEMMY_SERVER>>>>)>>) }

\* the scheduler in its sleep loop
InitMail ==
    /\ feeds \in MailStores
    /\ articles = {}
    /\ now = StartTime
    /\ pc = "sleep"
    /\ feed_list = list_feeds(feeds)
    /\ idx = 0
    /\ next_loop = StartTime + MIN_BACKOFF
    /\ hit_servers = {}
    /\ cur = <<>>
    /\ remote_posts = <<>>
    /\ inbox = {}
    /\ outbox = <<>>
    /\ hist = NoHist

\* somebody writes to a bot
SendMail ==
    /\ hist.msgs < MaxMail
    /\ \E m \in MailMessages :
          inbox' = inbox \cup {[id |-> hist.msgs + 1, to |-> m.to, creator |-> m.creator, content |-> m.content]}
    /\ hist' = [hist EXCEPT !.msgs = @ + 1]
    /\ UNCHANGED <<feeds, articles, now, pc, feed_list, idx, next_loop, hit_servers, cur, remote_posts, outbox>>

\* for bot_username, api in lemmy_apis.items(): process_messages_and_mentions(...)
PollMail ==
    /\ pc = "sleep"
    /\ Poll
    /\ UNCHANGED <<articles, now, pc, feed_list, idx, next_loop, hit_servers, cur, remote_posts>>

NextMail ==
    \/ SendMail
    \/ PollMail

\* the command processor beside the senders of messages
SpecMail == InitMail /\ [][NextMail]_vars

\* the most entries of a fetched document that the estimator is given
MaxEntries == 2

\* the dates an entry may carry: none, two long ago, one exactly MAX_BACKOFF
\* ago, one some hours ago, one exactly SHORT_BACKOFF ago, two in the last
\* minutes, one ahead of the clock
EntryDates == {NULL, StartTime - MAX_BACKOFF - 140, StartTime - MAX_BACKOFF - 40,
               StartTime - MAX_BACKOFF, StartTime - 1000,
               StartTime - SHORT_BACKOFF, StartTime - 10, StartTime - 4, StartTime + 10}

EntryLists ==
    UNION {[1..n -> {Entry("u1", PlainTitle, d) : d \in EntryDates}] : n \in 0..MaxEntries}

\* the article tables the estimator may read: empty, one recent row, an old
\* and a recent row, one row of long ago, five rows of the last minutes
BackoffStores ==
    { {},
      add_article({}, 1, "u1", PlainTitle, StartTime - 4, NULL),
      add_article(add_article({}, 1, "u1", PlainTitle, StartTime - 1000, 7), 1, "u2", PlainTitle, StartTime - 10, NULL),
      add_article({}, 1, "u1", PlainTitle, StartTime - MAX_BACKOFF - 140, 7),
      add_article(add_article(add_article(add_article(add_article({},
          1, "u1", PlainTitle, StartTime - 16, 7), 1, "u2", PlainTitle, StartTime - 12, 7),
          1, "u3", PlainTitle, StartTime - 8, 7), 1, "u4", PlainTitle, StartTime - 5, 7),
          1, "u5", PlainTitle, StartTime - 2, NULL) }

\* the instants at which the estimator is called
BackoffNows == {StartTime, StartTime + SHORT_BACKOFF}

InitBackoff ==
    /\ feeds = CliAdd({}, <<"x", "rss">>, <<"foo", "">>, "free")
    /\ articles \in BackoffStores
    /\ now \in BackoffNows
    /\ pc = "estimator"
    /\ feed_list = list_feeds(feeds)
    /\ idx = 1
    /\ next_loop = NULL
    /\ hit_servers = {}
    /\ cur = <<>>
    /\ remote_posts = <<>>
    /\ inbox = {}
    /\ outbox = <<>>
    /\ hist = NoHist

\* one call get_backoff_next_check(db, feed, entries); cur keeps the call
Estimate ==
    /\ pc = "estimator"
    /\ \E fetched \in BOOLEAN : \E entries \in (IF fetched THEN EntryLists ELSE {<<>>}) :
          cur' = <<[feed |-> feed_list[idx], fetched |-> fetched, entries |-> entries,
                    timestamps |-> get_article_timestamps(articles, feed_list[idx].id, fetched, entries),
                    next_check |-> get_backoff_next_check(articles, feed_list[idx].id, fetched, entries, now)]>>
    /\ UNCHANGED <<feeds, articles, now, pc, feed_list, idx, next_loop, hit_servers, remote_posts,
                   inbox, outbox, hist>>

\* the estimator on its own
SpecBackoff == InitBackoff /\ [][Estimate]_vars

\* the most pieces a raw title is made of
MaxPieces == 2

\* s * n
Rep(s, n) == [i \in 1..(n * Len(s)) |-> s[((i - 1) % Len(s)) + 1]]

\* what raw titles are made of: six words of four emoji, 51 letters in an
\* <em> tag, a site name behind a bar, an escaped tag, an escaped ampersand,
\* a letter, a run of wide blanks, and a headline in the Pluralistic wrapper
TitlePieces ==
    { Rep(<<"U+1F600", "U+1F600", "U+1F600", "U+1F600", " ">>, 6),
      OpenTag("em") \o Rep(<<"a">>, 51) \o CloseTag("em"),
      <<" ", "|", " ">> \o Rep(<<"U+1F600">>, 25),
      <<"&","l","t",";","b","&","g","t",";","x">>,
      <<"&","a","m","p",";">>,
      <<"x">>,
      Rep(<<"U+3000">>, 34),
      Pluralistic \o <<" ","x"," ","(","1"," ","J","a","n"," ","2","4",")">> }

RECURSIVE Concat(_)
Concat(ss) == IF ss = <<>> THEN <<>> ELSE Head(ss) \o Concat(Tail(ss))

\* entry.title of the entries that the feeds carry
RawTitles == {Concat(ps) : ps \in UNION {[1..n -> TitlePieces] : n \in 0..MaxPieces}}

\* the exception of trim_headline: rsplit gives an empty list for a blank text
TrimRaises(headline, max_bytes) ==
    ByteLen(headline) > max_bytes /\ RStrip(TakeBytes(headline, max_bytes - 3)) = <<>>

\* the way of one title: the entry, the row that staging stores, the name
\* that create_post is given, and that name normalized once more
TitleState(title, stage, headline, name, again) ==
    [title |-> title, stage |-> stage, headline |-> headline, name |-> name, again |-> again]

InitHeadline ==
    /\ feeds = {}
    /\ articles = {}
    /\ now = StartTime
    /\ pc = "headline"
    /\ feed_list = <<>>
    /\ idx = 0
    /\ next_loop = NULL
    /\ hit_servers = {}
    /\ cur \in {<<TitleState(t, "entry", <<>>, <<>>, <<>>)>> : t \in RawTitles}
    /\ remote_posts = <<>>
    /\ inbox = {}
    /\ outbox = <<>>
    /\ hist = NoHist

\* headline = trim_headline(headline), then db.add_article
StageTitle ==
    /\ pc = "headline"
    /\ cur[1].stage = "entry"
    /\ cur' = IF TrimRaises(cur[1].title, 200)
              THEN <<TitleState(cur[1].title, "raised", <<>>, <<>>, <<>>)>>
              ELSE <<TitleState(cur[1].title, "staged", trim_headline(cur[1].title, 200), <<>>, <<>>)>>
    /\ UNCHANGED <<feeds, articles, now, pc, feed_list, idx, next_loop, hit_servers, remote_posts,
                   inbox, outbox, hist>>

\* new_headline = process_headline(headline), then create_post(name=headline)
PublishTitle ==
    /\ pc = "headline"
    /\ cur[1].stage = "staged"
    /\ LET new_headline == process_headline(cur[1].headline)
       IN cur' = <<TitleState(cur[1].title, "posted", cur[1].headline,
                              IF new_headline # cur[1].headline THEN new_headline ELSE cur[1].headline,
                              <<>>)>>
    /\ UNCHANGED <<feeds, articles, now, pc, feed_list, idx, next_loop, hit_servers, remote_posts,
                   inbox, outbox, hist>>

\* process_headline applied to what it returned
NormalizeAgain ==
    /\ pc = "headline"
    /\ cur[1].stage = "posted"
    /\ cur' = <<TitleState(cur[1].title, "again", cur[1].headline, cur[1].name, process_headline(cur[1].name))>>
    /\ UNCHANGED <<feeds, articles, now, pc, feed_list, idx, next_loop, hit_servers, remote_posts,
                   inbox, outbox, hist>>

NextHeadline ==
    \/ StageTitle
    \/ PublishTitle
    \/ NormalizeAgain

\* the way of a title from the entry to the post
SpecHeadline == InitHeadline /\ [][NextHeadline]_vars

\* the largest feed id that the calls below may reach
MaxFeedId == 3

\* the arguments of the calls of the persistence layer: the community names
\* are given with and without instance, with the id that the server has for
\* them, and one names no community
DbUrls == {<<"x", "rss">>, <<"y", "rss">>}
DbCommunities == {<<"foo", "">>, <<"foo", LEMMY_SERVER>>, <<"bar", LEMMY_SERVER>>}
DbBots == {"free", "bot"}

\* a call of the persistence layer and its outcome
DbCall(op, community_name, feed_url, bot_username, raised, changes) ==
    [op |-> op, community_name |-> community_name, feed_url |-> feed_url,
     bot_username |-> bot_username, raised |-> raised, changes |-> changes]

InitDb ==
    /\ feeds = {}
    /\ articles = {}
    /\ now = StartTime
    /\ pc = "db"
    /\ feed_list = <<>>
    /\ idx = 0
    /\ next_loop = NULL
    /\ hit_servers = {}
    /\ cur = <<>>
    /\ remote_posts = <<>>
    /\ inbox = {}
    /\ outbox = <<>>
    /\ hist = NoHist

\* db.add_feed(feed_url, community_name, community_id, bot_username=bot_username)
AddFeedCall ==
    /\ pc = "db"
    /\ NewRowid(feeds) <= MaxFeedId
    /\ \E u \in DbUrls, c \in DbCommunities, b \in DbBots :
          /\ feeds' = add_feed(feeds, u, c, fetch_community_id(c).id, None, None, NULL, b)
          /\ cur' = <<DbCall("add_feed", c, u, b, "no", 0)>>
    /\ UNCHANGED <<articles, now, pc, feed_list, idx, next_loop, hit_servers, remote_posts,
                   inbox, outbox, hist>>

\* db.update_feed_url(community_name, new_feed_url, bot_username)
UpdateFeedUrlCall ==
    /\ pc = "db"
    /\ \E u \in DbUrls, c \in DbCommunities \cup {<<"nosuch", "">>}, b \in {None, "bot"} :
          LET r == update_feed_url(feeds, c, u, b)
          IN /\ feeds' = r.feeds
             /\ cur' = <<DbCall("update_feed_url", c, u, b, r.raised, 0)>>
    /\ UNCHANGED <<articles, now, pc, feed_list, idx, next_loop, hit_servers, remote_posts,
                   inbox, outbox, hist>>

\* db.remove_feed(community_name=..., feed_url=...)
RemoveFeedCall ==
    /\ pc = "db"
    /\ \E u \in DbUrls \cup {Omitted}, c \in DbCommunities \cup {Omitted} :
          LET r == remove_feed(feeds, c, u)
          IN /\ feeds' = r.feeds
             /\ cur' = <<DbCall("remove_feed", c, u, None, IF r.raised THEN "ValueError" ELSE "no", r.changes)>>
    /\ UNCHANGED <<articles, now, pc, feed_list, idx, next_loop, hit_servers, remote_posts,
                   inbox, outbox, hist>>

NextDb ==
    \/ AddFeedCall
    \/ UpdateFeedUrlCall
    \/ RemoveFeedCall

\* the callers of the feed table
SpecDb == InitDb /\ [][NextDb]_vars

\* the most answers with status 429 or 503 that one call is given
MaxRetries == 4

\* time.sleep(60), in seconds
RATE_LIMIT_SLEEP == 60

\* the statuses with which the server answers a request whose redirects the
\* library has followed
Statuses == {200, 204, 304, 404, 429, 500, 503}

\* response.ok: raise_for_status raises for the statuses from 400 on
ok(status) == status < 400

\* one call of _make_request: the statuses received so far, the seconds slept
\* after rate limiting, and whether requests.request raised
RequestState(answers, slept, failed) == [answers |-> answers, slept |-> slept, failed |-> failed]

InitRequest ==
    /\ feeds = {}
    /\ articles = {}
    /\ now = StartTime
    /\ pc = "call"
    /\ feed_list = <<>>
    /\ idx = 0
    /\ next_loop = NULL
    /\ hit_servers = {}
    /\ cur = <<RequestState(<<>>, 0, FALSE)>>
    /\ remote_posts = <<>>
    /\ inbox = {}
    /\ outbox = <<>>
    /\ hist = NoHist

\* time.sleep(Config.REQUEST_DELAY), then the loop is entered
BeginRequest ==
    /\ pc = "call"
    /\ pc' = "request"
    /\ UNCHANGED <<feeds, articles, now, feed_list, idx, next_loop, hit_servers, cur, remote_posts,
                   inbox, outbox, hist>>

\* one pass of the loop in which the server answers
Answer ==
    /\ pc = "request"
    /\ \E status \in Statuses :
          /\ status \in {429, 503} => Len(cur[1].answers) < MaxRetries
          /\ cur' = <<RequestState(Append(cur[1].answers, status),
                                   IF status = 429 \/ status = 503
                                   THEN cur[1].slept + RATE_LIMIT_SLEEP ELSE cur[1].slept,
                                   FALSE)>>
          /\ pc' = IF status = 429 \/ status = 503 THEN "request"
                   ELSE IF ~ok(status) THEN "raised"
                   ELSE "returned"
    /\ UNCHANGED <<feeds, articles, now, feed_list, idx, next_loop, hit_servers, remote_posts,
                   inbox, outbox, hist>>

\* one pass of the loop in which requests.request raises: no answer came
ConnectionFails ==
    /\ pc = "request"
    /\ cur' = <<RequestState(cur[1].answers, cur[1].slept, TRUE)>>
    /\ pc' = "raised"
    /\ UNCHANGED <<feeds, articles, now, feed_list, idx, next_loop, hit_servers, remote_posts,
                   inbox, outbox, hist>>

NextRequest ==
    \/ BeginRequest
    \/ Answer
    \/ ConnectionFails

\* one call of the client
SpecRequest == InitRequest /\ [][NextRequest]_vars

\* the most entries of a fetched document
MaxDocLen == 2

\* the entries a document is made of: two links, a plain and a blacklisted
\* title, no date, two fresh dates, a date exactly POST_WINDOW old and an older one
StageEntries ==
    { Entry(l, t, d) : l \in {"u1", "u2"}, t \in {PlainTitle, JunkTitle},
                       d \in {NULL, StartTime - 10, StartTime - 4,
                              StartTime - POST_WINDOW, StartTime - POST_WINDOW - 1} }

\* rss.entries of the parsed document
StageDocs == UNION {[1..n -> StageEntries] : n \in 0..MaxDocLen}

\* the article table before the fetch: empty, u1 posted by the feed, u1 staged by another feed
StageStores ==
    { {},
      update_article_post_id(add_article({}, 1, "u1", PlainTitle, StartTime - 20, NULL), 1, 7),
      add_article({}, 2, "u1", PlainTitle, StartTime - 20, NULL) }

InitStage ==
    /\ feeds = CliAdd(CliAdd({}, <<"x", "rss">>, <<"foo", "">>, "free"), <<"y", "rss">>, <<"bar", LEMMY_SERVER>>, "bot")
    /\ articles \in StageStores
    /\ now = StartTime
    /\ pc = "stage"
    /\ feed_list = list_feeds(feeds)
    /\ idx = 1
    /\ next_loop = NULL
    /\ hit_servers = {}
    /\ cur = <<>>
    /\ remote_posts = <<>>
    /\ inbox = {}
    /\ outbox = <<>>
    /\ hist = NoHist

\* one call process_feed_entries(db, feed_id, rss); cur keeps the call
StageFeed ==
    /\ pc = "stage"
    /\ cur = <<>>
    /\ \E entries \in StageDocs :
          /\ articles' = process_feed_entries(articles, feed_list[idx].id, entries, now)
          /\ cur' = <<[feed |-> feed_list[idx], entries |-> entries, before |-> articles]>>
    /\ UNCHANGED <<feeds, now, pc, feed_list, idx, next_loop, hit_servers, remote_posts,
                   inbox, outbox, hist>>

\* the staging of one fetched document on its own
SpecStage == InitStage /\ [][StageFeed]_vars

\* The scheduler over an unbounded time.  Every test of the loop compares a
\* stored instant with now, and the estimator's result minus now depends
\* only on the stored instants minus now; so the clock is kept relative:
\* now stays at StartTime, and a sleep of d minutes moves every stored
\* instant d minutes into the past.

\* the longest time, in minutes, that the Lemmy server refuses an article
MaxOutage == 30

\* the age beyond which a stored article timestamp is not told apart: the
\* estimator's result is the same for every greater age (ClockExact)
OldestKept == StartTime - LONG_BACKOFF - SHORT_BACKOFF - MaxOutage

\* a stored instant after a sleep of d minutes
Passed(t, d) == IF t = NULL THEN NULL ELSE t - d
Aged(t, d) == Max2(t - d, OldestKept)

\* the store that the CLI has filled: two feeds of one host
LiveStores ==
    { CliAdd(CliAdd({}, <<"x", "rss">>, <<"foo", "">>, "free"), <<"x", "atom">>, <<"bar", LEMMY_SERVER>>, "bot") }

\* the moderator of foo adds a feed that the store holds already
LiveMessages ==
    { Message(Person("alice", LEMMY_SERVER), "free", <<Line("add", <<<<"x", "rss">>, <<"foo", "">>>>)>>) }

\* the origins answer every GET with a document without validators: an empty
\* one, or the one that lists two fresh entries newest first
LiveResponses ==
    {resp \in Responses :
        /\ resp.status = "200"
        /\ resp.last_modified = None
        /\ \/ resp.entries = <<>>
           \/ Len(resp.entries) = 2 /\ resp.entries[1].published > resp.entries[2].published}

InitLive ==
    /\ feeds \in LiveStores
    /\ articles = {}
    /\ now = StartTime
    /\ pc = "start"
    /\ feed_list = <<>>
    /\ idx = 0
    /\ next_loop = NULL
    /\ hit_servers = {}
    /\ cur = <<>>
    /\ remote_posts = <<>>
    /\ inbox = {}
    /\ outbox = <<>>
    /\ hist = NoHist

\* the passes of `while datetime.now(timezone.utc) < next_loop` up to the one
\* that reaches next_loop; no message is waiting, so the pollings change nothing
SleepThrough ==
    /\ pc = "sleep"
    /\ now < next_loop
    /\ inbox = {}
    /\ LET d == next_loop - now
       IN /\ feeds' = {[f EXCEPT !.next_check = Passed(@, d)] : f \in feeds}
          /\ feed_list' = [i \in DOMAIN feed_list |->
                              [feed_list[i] EXCEPT !.next_check = Passed(@, d)]]
          /\ articles' = {[a EXCEPT !.fetched_timestamp = Aged(@, d)] : a \in articles}
          /\ next_loop' = now
    /\ UNCHANGED <<now, pc, idx, hit_servers, cur, remote_posts, inbox, outbox, hist>>

\* the moderator writes to the bot during the last pass of the sleep loop
SendLive ==
    /\ pc = "sleep"
    /\ now >= next_loop
    /\ hist.msgs < MaxMsgs
    /\ \E m \in LiveMessages :
          inbox' = inbox \cup {[id |-> hist.msgs + 1, to |-> m.to, creator |-> m.creator, content |-> m.content]}
    /\ hist' = [hist EXCEPT !.msgs = @ + 1]
    /\ UNCHANGED <<feeds, articles, now, pc, feed_list, idx, next_loop, hit_servers, cur, remote_posts, outbox>>

\* create_post raises while the outage of the server lasts
CreatePostRaisesInOutage ==
    /\ pc = "create_post"
    /\ cur[1].article.fetched_timestamp > StartTime - MaxOutage
    /\ CreatePostRaises

\* one step of fetch_and_post, the whole sleep in one step
SchedulerLive ==
    \/ BeginIteration
    \/ SleepThrough
    \/ WakeUp
    \/ SkipFeed
    \/ ProcessBacklog
    \/ FetchFeedFrom(LiveResponses)
    \/ CreatePostReturns
    \/ CreatePostRaisesInOutage
    \/ RecordPost

NextLive ==
    \/ SchedulerLive
    \/ SendLive

\* create_post for the article returns a post
PostSucceeds(url) == CreatePostReturns /\ cur[1].article.article_url = url

\* the links of the entries that the origins serve
Links == {"u1", "u2"}

\* the loop never stops, and a create_post that is tried again and again for
\* an article succeeds in the end
SpecLive ==
    /\ InitLive
    /\ [][NextLive]_vars
    /\ WF_vars(SchedulerLive)
    /\ \A url \in Links : SF_vars(PostSucceeds(url))

\* the relative clock loses nothing: when the estimator is about to read the
\* stored timestamps of a feed, one that has reached the age OldestKept is
\* the older of two and more than LONG_BACKOFF older than the other, so the
\* period between them is cut to LONG_BACKOFF whatever the age is
ClockExact ==
    (pc = "posted" /\ ~cur[1].fetched)
       => LET mine == {a \in articles : a.feed_id = cur[1].feed.id}
          IN \A a \in mine :
                a.fetched_timestamp = OldestKept
                   => /\ Cardinality(mine) <= 2
                      /\ \E b \in mine : b.fetched_timestamp - a.fetched_timestamp >= LONG_BACKOFF

--------------------------------------------------------------------------
(* Properties *)

\* the create_post calls that succeeded on the server for the link
PostsOf(url) == {i \in DOMAIN remote_posts : remote_posts[i].url = url}

\* is the person a moderator of the community, by the server's own list
IsModerator(person, community_name) ==
    /\ Canonical(community_name) \in RemoteCommunities
    /\ person \in RemoteModerators(Canonical(community_name))

\* the messages the step answers
Answered == inbox \ inbox'

\* the answer the step sends to the message
AnswerTo(pm) == {outbox'[i] : i \in {j \in DOMAIN outbox' : j > Len(outbox) /\ outbox'[j].re = pm.id}}

\* the step ends the per-feed procedure of the feed: it leaves the body of the
\* for loop after the feed was found due and its host was not hit before
EndsProcedure(feed) ==
    /\ idx' = idx + 1
    /\ \/ pc \in {"create_post", "posted"} /\ feed = cur[1].feed
       \/ pc = "feeds" /\ feed = feed_list[idx] /\ hit_servers' # hit_servers

\* the step in which create_post raises: the call was sent, no post was
\* created, and the process lives on
RaiseStep ==
    /\ pc = "create_post"
    /\ remote_posts' = remote_posts
    /\ hist'.crashes = hist.crashes

\* C1: for every article link at most one create_post call succeeds on the
\* server over the whole life of the store, also when the process is
\* terminated anywhere in the per-feed procedure and started again
C1_AtMostOncePerUrl ==
    \A i \in DOMAIN remote_posts : Cardinality(PostsOf(remote_posts[i].url)) <= 1

\* C2: whenever create_post is called, the article is a row of the called
\* feed that is in the store with lemmy_post_id NULL: never for an article
\* that has a post id already
C2_PostOnlyUnposted ==
    pc = "create_post" =>
        LET a == cur[1].article
        IN /\ a \in articles
           /\ a.feed_id = cur[1].feed.id
           /\ a.lemmy_post_id = NULL

\* create_post is called for an article while an earlier article of the same
\* feed has its post id already
C2_Witness ==
    /\ pc = "create_post"
    /\ \E b \in articles : /\ b.feed_id = cur[1].feed.id
                           /\ b.id < cur[1].article.id
                           /\ b.lemmy_post_id # NULL

\* C3: after any sequence of add_article calls and scheduler iterations no
\* two article rows have the same article_url
C3_UniqueArticleUrl ==
    \A a, b \in articles : a.article_url = b.article_url => a = b

\* add_article was called for a feed with a link that a row of another feed
\* holds, and a fetch has staged a row too
C3_Witness ==
    /\ \E d \in hist.dup_adds : \E a \in articles : a.article_url = d[2] /\ a.feed_id # d[1]
    /\ Cardinality(articles) = 2
    /\ remote_posts # <<>>

C5_FifoPerFeed ==
    /\ pc = "create_post" =>
          \A b \in articles : (b.feed_id = cur[1].feed.id /\ b.lemmy_post_id = NULL)
                                 => b.id >= cur[1].article.id
    /\ \A i, j \in DOMAIN hist.set_calls :
          (i < j /\ hist.set_calls[i][1] = hist.set_calls[j][1])
             => hist.set_calls[i][2] < hist.set_calls[j][2]

\* two articles of one feed have been recorded as posted
C5_Witness ==
    \E i, j \in DOMAIN hist.set_calls :
        /\ i < j
        /\ hist.set_calls[i][1] = hist.set_calls[j][1]
        /\ hist.set_calls[i][2] # hist.set_calls[j][2]

\* C6: the feed_id of every article row is the id of a feed row
C6_ArticleHasFeed ==
    \A a \in articles : \E f \in feeds : f.id = a.feed_id

\* C7: an /add command of a sender who is no moderator of the resolved
\* community leaves the set of feed rows unchanged
C7_AddOnlyByModerator ==
    [][\A pm \in Answered :
          (/\ Len(pm.content) = 1
           /\ pm.content[1].command = "add"
           /\ Len(pm.content[1].args) = 2
           /\ ~IsModerator(pm.creator, WithDefault(pm.content[1].args[2])))
             => feeds' = feeds]_vars

\* C8: a /delete command of a sender who is no moderator of the named
\* community removes no feed row; the reply to a /delete that removed rows
\* tells how many
C8_DeleteOnlyByModerator ==
    [][\A pm \in Answered :
          (/\ Len(pm.content) = 1
           /\ pm.content[1].command = "delete"
           /\ Len(pm.content[1].args) = 2)
             => /\ ~IsModerator(pm.creator, pm.content[1].args[2]) => feeds' = feeds
                /\ feeds' # feeds =>
                      \A r \in AnswerTo(pm) :
                          r.content = <<Reply("> /delete", NoArg, 0),
                                        Reply("Deleted", pm.content[1].args[2],
                                              Cardinality(feeds \ feeds'))>>]_vars

\* C9: when the per-feed procedure of a feed ends and the feed still has an
\* article with lemmy_post_id NULL, the feed's next_check is now + MIN_BACKOFF
C9_BacklogRescheduled ==
    [][\A feed \in Range(feed_list) :
          (/\ EndsProcedure(feed)
           /\ \E a \in articles' : a.feed_id = feed.id /\ a.lemmy_post_id = NULL)
             => \A f \in feeds' : f.id = feed.id => f.next_check = now + MIN_BACKOFF]_vars

\* C10: when create_post raises, the article keeps lemmy_post_id NULL and the
\* loop goes on with the next feed of the same list; create_post is called
\* at most once for a feed in one outer iteration
C10_RaiseIsSkipped ==
    /\ [][RaiseStep =>
            /\ cur[1].article \in articles'
            /\ cur[1].article.lemmy_post_id = NULL
            /\ feed_list' = feed_list
            /\ hit_servers' = hit_servers
            /\ idx' = idx + 1
            /\ pc' = IF idx < Len(feed_list) THEN "feeds" ELSE "start"]_vars
    /\ [](\A i, j \in DOMAIN hist.iter_posts : hist.iter_posts[i] = hist.iter_posts[j] => i = j)

\* after create_post raised for the first feed of the list, it is called for
\* the second feed in the same iteration, the first article still unposted
C10_Witness ==
    /\ pc = "create_post"
    /\ Len(hist.iter_posts) = 2
    /\ remote_posts = <<>>
    /\ \E a \in articles : a.feed_id = hist.iter_posts[1] /\ a.lemmy_post_id = NULL

\* the step starts the per-feed procedure of the feed: the feed is found due
\* and its host is added to the hosts that were hit
StartsProcedure(feed) ==
    /\ pc = "feeds"
    /\ feed = feed_list[idx]
    /\ hist'.crashes = hist.crashes
    /\ hit_servers' # hit_servers

\* has the feed an article that is not posted
HasUnposted(arts, feed_id) == \E a \in arts : a.feed_id = feed_id /\ a.lemmy_post_id = NULL

\* C11: when the per-feed procedure of a feed starts while the feed has an
\* unposted article, the procedure calls network_fetch for no feed and
\* inserts or changes no article row
C11_BacklogNoFetch ==
    [][\A feed \in Range(feed_list) :
          (StartsProcedure(feed) /\ HasUnposted(articles, feed.id))
             => /\ hist'.iter_fetches = hist.iter_fetches
                /\ articles' = articles
                /\ pc' = "create_post"]_vars

\* create_post is called for a feed that was not fetched in this iteration
C11_Witness ==
    /\ pc = "create_post"
    /\ \A i \in DOMAIN hist.iter_fetches : hist.iter_fetches[i].id # cur[1].feed.id

\* C12: in one outer iteration create_post is called at most once for a feed
C12_OnePostPerFeed ==
    \A i, j \in DOMAIN hist.iter_posts : i # j => hist.iter_posts[i] # hist.iter_posts[j]

\* a post was recorded for a feed whose backlog still holds an article, and
\* the iteration has gone on
C12_Witness ==
    /\ pc \in {"feeds", "start"}
    /\ \E i \in DOMAIN hist.iter_posts :
          /\ HasUnposted(articles, hist.iter_posts[i])
          /\ \E a \in articles : a.feed_id = hist.iter_posts[i] /\ a.lemmy_post_id # NULL

\* is the feed row due at the instant, its host left aside
Due(feed, t_now) == PassedForHost(feed, t_now)

\* C13: in one outer iteration no two fetches go to the same host, and the
\* set of hosts that were hit is empty when the loop over the feeds begins
C13_OneFetchPerHost ==
    /\ \A i, j \in DOMAIN hist.iter_fetches :
          i # j => hist.iter_fetches[i].host # hist.iter_fetches[j].host
    /\ (pc = "feeds" /\ idx = 1) => hit_servers = {}

\* a feed was fetched, and the loop has gone past another due feed of the
\* same host without fetching it
C13_Witness ==
    \E i \in DOMAIN hist.iter_fetches : \E k \in DOMAIN feed_list :
        /\ k < idx
        /\ feed_list[k].id # hist.iter_fetches[i].id
        /\ feed_list[k].feed_url[1] = hist.iter_fetches[i].host
        /\ Due(feed_list[k], now)
        /\ feed_list[k].id \in hist.iter_passed

\* C14: the step that passes over a due feed because its host was hit
\* changes no feed row and no article row, fetches nothing and posts nothing
C14_SkippedUnchanged ==
    [][\A feed \in Range(feed_list) :
          (/\ pc = "feeds"
           /\ feed = feed_list[idx]
           /\ hist'.crashes = hist.crashes
           /\ Due(feed, now)
           /\ feed.feed_url[1] \in hit_servers)
             => /\ feeds' = feeds
                /\ articles' = articles
                /\ hist'.iter_fetches = hist.iter_fetches
                /\ hist'.iter_posts = hist.iter_posts
                /\ pc' # "create_post"]_vars

\* a due feed was passed over for its host while its own row was never
\* touched and the feed of the host that was taken has staged an article
C14_Witness ==
    \E f \in feeds :
        /\ f.id \in hist.iter_passed
        /\ f.next_check = NULL
        /\ \E a \in articles : \E g \in feeds : g.id = a.feed_id /\ g.id # f.id /\ g.feed_url[1] = f.feed_url[1]

\* C15: a feed that was due and passed over for its host in one outer
\* iteration is processed, not passed over, in the next outer iteration
C15_SkippedGoesNext ==
    [][\A feed \in Range(feed_list) :
          (/\ pc = "feeds"
           /\ feed = feed_list[idx]
           /\ hist'.crashes = hist.crashes
           /\ feed.id \in hist.passed)
             => hit_servers' # hit_servers]_vars

\* the step calls network_fetch for the feed and gets no document: the
\* answer is 304, or the request fails
FetchWithoutDocument(feed) ==
    /\ StartsProcedure(feed)
    /\ Len(hist'.iter_fetches) = Len(hist.iter_fetches) + 1
    /\ ~hist'.iter_fetches[Len(hist'.iter_fetches)].ok

\* C16: when the fetch of a due feed without backlog brings no document,
\* no article row is added or changed, the feed row keeps its
\* last_updated_header and etag, and its next_check is the estimator's result
\* for the stored article timestamps of the feed
C16_NoDocumentKeepsState ==
    [][\A feed \in Range(feed_list) :
          FetchWithoutDocument(feed)
             => /\ articles' = articles
                /\ \A f \in feeds : f.id = feed.id =>
                      \E g \in feeds' :
                          /\ g.id = f.id
                          /\ g.last_updated_header = f.last_updated_header
                          /\ g.etag = f.etag
                          /\ g.next_check = get_backoff_next_check(articles, feed.id, FALSE, <<>>, now)]_vars


\* the echo of a command line in a reply
IsEcho(item) == item.kind \in {"> /add", "> /delete", "> /list", "> /help", "> /?"}

\* the positions of the echoes in a reply, in order
Echoes(reply) == SelectSeq([i \in DOMAIN reply |-> i], LAMBDA i : IsEcho(reply[i]))

\* the part of a reply that answers the k-th command of the message: what
\* follows its echo, up to the next echo
Block(reply, k) ==
    LET e == Echoes(reply)
    IN IF k > Len(e) THEN <<>>
       ELSE SubSeq(reply, e[k] + 1, IF k < Len(e) THEN e[k + 1] - 1 ELSE Len(reply))

\* the step polls the mailboxes while exactly this message is unread
PollsOnly(pm) == inbox = {pm} /\ inbox' = {} /\ Len(outbox') = Len(outbox) + 1

\* the feed table as the commands before the k-th have left it
FeedsBefore(pm, k) ==
    RunLines(CmdState(feeds, <<>>, <<>>), SubSeq(pm.content, 1, k - 1), pm.creator.name, pm.to).feeds

\* C17: a /list <community> command answers with exactly the feed_urls of the
\* feeds whose community matches the requested one once the default instance
\* is put behind a name given without instance; so after "/add x/rss foo" by
\* a moderator, "/list foo" in the same message lists x/rss.
C17_ListAnswers ==
    [][\A pm \in inbox : \A k \in DOMAIN pm.content :
          (PollsOnly(pm) /\ pm.content[k].command = "list" /\ Len(pm.content[k].args) = 1)
             => LET reply == outbox'[Len(outbox')].content
                    listed == {item.arg : item \in {it \in Range(Block(reply, k)) :
                                                        it.kind \in {"Feeds active for: *", "*"}}}
                IN listed = {f.feed_url : f \in {g \in FeedsBefore(pm, k) :
                                                    WithDefault(g.community_name)
                                                       = WithDefault(pm.content[k].args[1])}}]_vars

\* C18: when a command of a message raises, its block of the reply holds the
\* failure note, and every later command of the message is still executed
\* and answered: the reply holds one block per command, none of them empty,
\* and a feed that a later /add reports as added is in the table afterwards.
C18_LaterCommandsRun ==
    [][\A pm \in inbox : \A k \in DOMAIN pm.content :
          LET reply == outbox'[Len(outbox')].content
          IN (PollsOnly(pm) /\ \E it \in Range(Block(reply, k)) : it.kind = "An error occurred")
                => /\ Len(Echoes(reply)) = Len(pm.content)
                   /\ \A j \in DOMAIN pm.content :
                         j > k =>
                            /\ Block(reply, j) # <<>>
                            /\ (/\ pm.content[j].command = "add"
                                /\ \E it \in Range(Block(reply, j)) : it.kind = "Added"
                                /\ ~\E j2 \in DOMAIN pm.content : j2 > j /\ pm.content[j2].command = "delete")
                                  => \E f \in feeds' :
                                        /\ f.feed_url = pm.content[j].args[1]
                                        /\ f.community_name = WithDefault(pm.content[j].args[2])]_vars

\* a message was answered with a failure note for its first command and with
\* the answer of a later /add
C18_Witness ==
    \E i \in DOMAIN outbox :
        /\ \E it \in Range(Block(outbox[i].content, 1)) : it.kind = "An error occurred"
        /\ \E it \in Range(Block(outbox[i].content, 2)) : it.kind = "Added"

Estimated == pc = "estimator" /\ cur # <<>>

\* C20: when the sequence of timestamps is empty, the estimator returns
\* exactly now + 24 h.
C20_EmptyIsLong ==
    (Estimated /\ cur[1].timestamps = <<>>) => cur[1].next_check = now + 24 * 60

\* the estimator was given a fetched document whose entries carry no date,
\* while the table holds rows of the feed, or it was given no document
\* while the table holds none
C20_Witness ==
    /\ Estimated
    /\ cur[1].timestamps = <<>>
    /\ \/ cur[1].fetched /\ cur[1].entries # <<>> /\ articles # {}
       \/ ~cur[1].fetched /\ articles = {}


\* the newest of the timestamps of the call, and the time since it
MostRecent == CHOOSE t \in Range(cur[1].timestamps) : \A u \in Range(cur[1].timestamps) : u <= t
Since == now - MostRecent

\* clamp(x, lo, hi)
Clamp(x, lo, hi) == IF x < lo THEN lo ELSE IF x > hi THEN hi ELSE x

\* C21: with timestamps and the newest one at most 4 days old, the estimator
\* returns now + clamp(median_period, MIN, LONG) when the newest is less than
\* 2 h old, and now + clamp(median_period, SHORT, LONG) otherwise.
C21_ActiveInactive ==
    (Estimated /\ cur[1].timestamps # <<>> /\ Since <= 4 * 24 * 60)
       => cur[1].next_check
             = now + Clamp(get_median_update_period(cur[1].timestamps),
                           IF Since < 2 * 60 THEN 5 ELSE 2 * 60, 24 * 60)

\* the newest timestamp is less than 2 h old and the median period, a few
\* minutes, is what the estimator waits
C21_Witness ==
    /\ Estimated
    /\ cur[1].timestamps # <<>>
    /\ Since < 2 * 60
    /\ cur[1].next_check - now < 2 * 60
    /\ cur[1].next_check - now = get_median_update_period(cur[1].timestamps)


\* the day an instant lies on, and the first minute of that day
DayOf(t) == t \div (24 * 60)
Midnight(t) == DayOf(t) * 24 * 60

\* C22, as stated: when the newest timestamp is more than 4 days before now,
\* the result of the estimator is an instant on today's date.
C22_SlowOnToday ==
    (Estimated /\ cur[1].timestamps # <<>> /\ Since > 4 * 24 * 60)
       => DayOf(cur[1].next_check) = DayOf(now)

\* C22, amended: when the newest timestamp is more than 4 days before now,
\* the result has the time of day of newest + 2 h; it lies on today's date
\* when that time of day is not yet past, and on tomorrow's date otherwise,
\* so it is never before now and less than 24 h after now.
C22_SlowTodayOrTomorrow ==
    (Estimated /\ cur[1].timestamps # <<>> /\ Since > 4 * 24 * 60)
       => LET snapped == Midnight(now) + ((MostRecent + 2 * 60) % (24 * 60))
          IN /\ cur[1].next_check = IF snapped >= now THEN snapped ELSE snapped + 24 * 60
             /\ cur[1].next_check >= now
             /\ cur[1].next_check < now + 24 * 60

\* the time of day of newest + 2 h is past, and the result is on tomorrow's date
C22_Witness ==
    /\ Estimated
    /\ cur[1].timestamps # <<>>
    /\ Since > 4 * 24 * 60
    /\ DayOf(cur[1].next_check) = DayOf(now) + 1


\* all timestamps of the call lie within the last two hours
AllRecent == \A t \in Range(cur[1].timestamps) : now - 2 * 60 < t /\ t <= now

\* neighbours in the sorted timestamps are less than 5 minutes apart
CloselySpaced ==
    LET st == sorted(cur[1].timestamps)
    IN \A i \in 1..(Len(st) - 1) : st[i + 1] - st[i] < 5

\* the burst lengths that the walk over the timestamps of the call records
Bursts == BurstTimes(cur[1].timestamps)

\* C23, as stated: when all timestamps lie within the last two hours and are
\* spaced less than 5 minutes apart, the burst walk records at most one burst
\* length, and the estimator returns now + clamp(that length, MIN, LONG), or
\* now + SHORT when none was recorded.
C23_AtMostOneBurst ==
    (Estimated /\ cur[1].timestamps # <<>> /\ AllRecent /\ CloselySpaced)
       => /\ Len(Bursts) <= 1
          /\ cur[1].next_check = IF Bursts = <<>> THEN now + 2 * 60
                                 ELSE now + Clamp(Bursts[1], 5, 24 * 60)

\* C23, amended: under the same condition the burst walk may record several
\* burst lengths, each of at least 5 and less than 10 minutes, and the
\* estimator returns now + the median of the recorded lengths, or now + SHORT
\* when none was recorded.
C23_ShortBursts ==
    (Estimated /\ cur[1].timestamps # <<>> /\ AllRecent /\ CloselySpaced)
       => /\ \A i \in DOMAIN Bursts : 5 <= Bursts[i] /\ Bursts[i] < 2 * 5
          /\ cur[1].next_check = IF Bursts = <<>> THEN now + 2 * 60
                                 ELSE now + median(Bursts)

\* closely spaced timestamps of the last minutes gave two different burst lengths
C23_Witness ==
    /\ Estimated
    /\ cur[1].timestamps # <<>>
    /\ AllRecent
    /\ CloselySpaced
    /\ Len(Bursts) = 2
    /\ Bursts[1] # Bursts[2]


\* the title of the state has been handed to create_post
Posted == pc = "headline" /\ cur[1].stage \in {"posted", "again"}

EndsInEllipsis(s) == Len(s) >= 3 /\ SubSeq(s, Len(s) - 2, Len(s)) = <<".", ".", ".">>

\* C24: the title passed to create_post never exceeds 200 UTF-8 bytes, also
\* when styled runs are rendered into multi-byte letters at publish time, and
\* a title that trimming has shortened ends in the ellipsis.
C24_PostedTitleBounded ==
    Posted => /\ ByteLen(cur[1].name) <= 200
              /\ cur[1].headline # cur[1].title => EndsInEllipsis(cur[1].name)

\* C25: applying the headline normalizer twice gives the same string as
\* applying it once.
C25_NormalizerIdempotent ==
    (pc = "headline" /\ cur[1].stage = "again") => cur[1].again = cur[1].name


\* the step is a call of the persistence layer with this name; cur' holds it
Calls(op) == pc = "db" /\ cur' # <<>> /\ cur'[1].op = op

\* the rows of the community key of the call
KeyRows(c) == {f \in feeds : f.community_name = c.community_name}

\* the row with the new feed_url, and the bot identity when one is supplied
Moved(f, c) == [f EXCEPT !.feed_url = c.feed_url,
                         !.bot_username = IF c.bot_username # None THEN c.bot_username ELSE @]

\* C26, as stated: update_feed_url raises and changes no feed row when zero
\* or several rows have the community key; with exactly one such row it
\* changes only that row's feed_url, and its bot identity when one is given.
C26_UpdateFeedUrl ==
    [][Calls("update_feed_url")
          => LET c == cur'[1]
             IN IF Cardinality(KeyRows(c)) # 1
                THEN c.raised # "no" /\ feeds' = feeds
                ELSE c.raised = "no"
                     /\ feeds' = (feeds \ KeyRows(c)) \cup {Moved(f, c) : f \in KeyRows(c)}]_vars

\* C26, amended: the same, except that with exactly one row of the community
\* key the call also raises and changes nothing when another row already
\* holds the new feed_url for the same community_id.
C26_UpdateFeedUrlUnlessTaken ==
    [][Calls("update_feed_url")
          => LET c == cur'[1]
                 taken == \E f \in KeyRows(c) : \E g \in feeds \ KeyRows(c) :
                             g.feed_url = c.feed_url /\ g.community_id = f.community_id
             IN IF Cardinality(KeyRows(c)) # 1 \/ taken
                THEN c.raised # "no" /\ feeds' = feeds
                ELSE c.raised = "no"
                     /\ feeds' = (feeds \ KeyRows(c)) \cup {Moved(f, c) : f \in KeyRows(c)}]_vars

\* a call has moved the one row of its community to the other feed_url and
\* to the bot it named, beside the row of another community
C26_Witness ==
    /\ pc = "db"
    /\ cur # <<>>
    /\ cur[1].op = "update_feed_url"
    /\ cur[1].raised = "no"
    /\ cur[1].bot_username # None
    /\ Cardinality(feeds) >= 2
    /\ \E f \in feeds : /\ f.community_name = cur[1].community_name
                        /\ f.feed_url = cur[1].feed_url
                        /\ f.bot_username = cur[1].bot_username

\* C27: remove_feed without selector raises and deletes nothing; otherwise it
\* deletes exactly the rows that match every selector supplied, leaves the
\* other rows as they are, and returns the number of rows it deleted.
C27_RemoveFeed ==
    [][Calls("remove_feed")
          => LET c == cur'[1]
                 matching == {f \in feeds :
                                 /\ c.community_name # Omitted => f.community_name = c.community_name
                                 /\ c.feed_url # Omitted => f.feed_url = c.feed_url}
             IN IF c.community_name = Omitted /\ c.feed_url = Omitted
                THEN c.raised # "no" /\ feeds' = feeds
                ELSE /\ c.raised = "no"
                     /\ feeds' = feeds \ matching
                     /\ c.changes = Cardinality(matching)]_vars

\* a call with both selectors has deleted one row and left the other row of
\* the community
C27_Witness ==
    /\ pc = "db"
    /\ cur # <<>>
    /\ cur[1].op = "remove_feed"
    /\ cur[1].community_name # Omitted
    /\ cur[1].feed_url # Omitted
    /\ cur[1].changes = 1
    /\ \E f \in feeds : f.community_name = cur[1].community_name

\* C28: add_article with a link that a row already holds leaves the table as
\* it is: a call that changes the table adds one row, with a link that no row
\* held, and leaves every row that was there; so a second call with the same
\* link has no effect.
C28_AddArticleNoOp ==
    [][/\ (hist'.dup_adds # hist.dup_adds => articles' = articles)
       /\ (articles' # articles /\ pc' = pc /\ idx' = idx)
             => /\ articles \subseteq articles'
                /\ Cardinality(articles' \ articles) = 1
                /\ \A a \in articles' \ articles : get_article_by_url(articles, a.article_url) = {}]_vars

\* add_article was called for a link that a row of another feed held with a
\* post id, and the row is still the only one
C28_Witness ==
    /\ \E d \in hist.dup_adds : \E a \in articles :
          a.article_url = d[2] /\ a.feed_id # d[1] /\ a.lemmy_post_id # NULL
    /\ Cardinality(articles) = 1

\* C29: after any sequence of add_feed, update_feed_url and remove_feed
\* calls, no two feed rows have the same (feed_url, community_id).
C29_UniqueFeedKey ==
    \A f \in feeds : \A g \in feeds :
        (f.feed_url = g.feed_url /\ f.community_id = g.community_id) => f = g

\* the table is full, and the last call was refused because another row held
\* the pair already
C29_Witness ==
    /\ pc = "db"
    /\ cur # <<>>
    /\ cur[1].raised = "IntegrityError"
    /\ Cardinality(feeds) = MaxFeedId


\* the statuses that the call of the client has received
Answers == cur[1].answers
Transient(status) == status \in {429, 503}

\* C30: a client call that receives 429 or 503 is retried after a sleep of
\* 60 s, without end, and never fails for these statuses; every other status
\* outside 200..299 makes the call fail without retry; so the call returns
\* or fails as soon as an answer is neither 429 nor 503.
C30_TransientRetried ==
    pc \in {"request", "returned", "raised"}
       => /\ \A i \in 1..(Len(Answers) - 1) : Transient(Answers[i])
          /\ cur[1].slept = 60 * Cardinality({i \in DOMAIN Answers : Transient(Answers[i])})
          /\ pc = "request" => (Answers = <<>> \/ Transient(Answers[Len(Answers)]))
          /\ pc = "returned" => Answers[Len(Answers)] \in 200..299
          /\ pc = "raised" => \/ cur[1].failed
                              \/ /\ ~Transient(Answers[Len(Answers)])
                                 /\ Answers[Len(Answers)] \notin 200..299

\* C40: for every sequence of timestamps (empty, stale, or holding
\* timestamps later than now) the estimator returns an instant that is not
\* before now and not more than 24 h after now.
C40_WithinADay ==
    Estimated => /\ cur[1].next_check >= now
                 /\ cur[1].next_check <= now + 24 * 60

\* the estimator was given a timestamp later than now, or timestamps whose
\* median period is longer than 24 h
C40_Witness ==
    /\ Estimated
    /\ cur[1].timestamps # <<>>
    /\ \/ MostRecent > now
       \/ Since <= 4 * 24 * 60 /\ get_median_update_period(cur[1].timestamps) > 24 * 60

\* the sleep target that the rows read at the start of an iteration give
Earliest(rows, t_now) ==
    LET times == {rows[i].next_check : i \in {j \in DOMAIN rows : rows[j].next_check # NULL}}
    IN IF times # {} THEN SetMin(times) ELSE t_now + 5

\* C32: the step that examines a feed whose next_check is in the future
\* fetches nothing, posts nothing and changes no state of the feed; the
\* sleep target of an iteration is the earliest next_check of the feeds read
\* at its start (now + MIN when no feed has one), and the loop over the
\* feeds starts only once now has reached it.
C32_FutureFeedUntouched ==
    [][/\ \A feed \in Range(feed_list) :
             (/\ pc = "feeds"
              /\ feed = feed_list[idx]
              /\ hist'.crashes = hist.crashes
              /\ feed.next_check # NULL
              /\ feed.next_check > now)
                => /\ feeds' = feeds
                   /\ articles' = articles
                   /\ remote_posts' = remote_posts
                   /\ hit_servers' = hit_servers
                   /\ hist'.iter_fetches = hist.iter_fetches
                   /\ hist'.iter_posts = hist.iter_posts
                   /\ pc' # "create_post"
       /\ (pc = "start" /\ pc' = "sleep") => next_loop' = Earliest(feed_list', now)
       /\ (pc = "sleep" /\ pc' = "feeds") => (now' >= next_loop /\ next_loop' = next_loop)
       /\ (pc \in {"feeds", "create_post", "posted"} /\ pc' \in {"feeds", "create_post", "posted"})
             => (now' >= next_loop' /\ next_loop' = next_loop)]_vars

\* the loop over the feeds, begun after a sleep, has gone past a feed whose
\* next_check is in the future, left its row as it was, and has taken
\* another feed, which was due
C32_Witness ==
    /\ pc \in {"feeds", "create_post"}
    /\ now > StartTime
    /\ now >= next_loop
    /\ \E k \in DOMAIN feed_list :
          /\ k < idx
          /\ feed_list[k].next_check # NULL
          /\ feed_list[k].next_check > now
          /\ feed_list[k] \in feeds
          /\ \E i \in DOMAIN hist.iter_posts : hist.iter_posts[i] # feed_list[k].id
          /\ \A i \in DOMAIN hist.iter_posts : hist.iter_posts[i] # feed_list[k].id
          /\ \A i \in DOMAIN hist.iter_fetches : hist.iter_fetches[i].id # feed_list[k].id

\* the call of process_feed_entries that was made
Staged == pc = "stage" /\ cur # <<>>

\* the date of an entry as staging reads it
DateOf(entry) == IF entry.published # NULL THEN entry.published ELSE now

\* the entry passes the three tests against the table before the fetch
Passes(entry, before) ==
    /\ ~Blacklisted(entry.title)
    /\ \A a \in before : a.article_url # entry.link
    /\ DateOf(entry) >= now - 3 * 24 * 60

\* C33: after an OK fetch an article row is inserted for a returned entry
\* exactly when its raw title matches no blacklist pattern, its URL is not
\* already in the store and its date is not older than 3 days; every other
\* entry leaves the store unchanged, and every inserted row has
\* lemmy_post_id = NULL.  (A row is the row of an entry that passes the
\* three tests; of several entries with one URL one row is inserted.)
C33_StagedExactly ==
    Staged =>
        LET before == cur[1].before
            entries == cur[1].entries
            inserted == articles \ before
        IN /\ before \subseteq articles
           /\ \A e \in Range(entries) :
                 Passes(e, before) => \E a \in inserted : a.article_url = e.link
           /\ \A a \in inserted :
                 /\ a.lemmy_post_id = NULL
                 /\ a.feed_id = cur[1].feed.id
                 /\ \E e \in Range(entries) :
                       /\ Passes(e, before)
                       /\ a.article_url = e.link
                       /\ a.fetched_timestamp = DateOf(e)
                       /\ a.headline = trim_headline(e.title, 200)
           /\ \A a, b \in articles : a.article_url = b.article_url => a = b

\* one document held an entry that was staged beside an entry that was not:
\* a blacklisted one, one whose URL the table held, or one older than 3 days
C33_Witness ==
    /\ Staged
    /\ articles # cur[1].before
    /\ \E e \in Range(cur[1].entries) :
          /\ \A a \in articles : a.article_url # e.link
          /\ \/ Blacklisted(e.title)
             \/ DateOf(e) < now - 3 * 24 * 60
    /\ \E e \in Range(cur[1].entries) : DateOf(e) = now - 3 * 24 * 60 /\ ~Blacklisted(e.title)

\* C34: the entries staged from one fetch receive article ids in ascending
\* order of their publication date, for every order in which the document
\* lists its entries.
C34_IdsFollowDates ==
    Staged =>
        \A a, b \in articles \ cur[1].before :
            a.fetched_timestamp < b.fetched_timestamp => a.id < b.id

\* C35: when the per-feed procedure of a feed ends after an OK fetch and a
\* publish attempt, whatever the outcome of the attempt, the feed row holds
\* the last_modified and etag that the fetch returned (the prior values
\* where the response carried none).
C35_ValidatorsPersisted ==
    [][\A feed \in Range(feed_list) :
          (/\ EndsProcedure(feed)
           /\ pc \in {"create_post", "posted"}
           /\ cur[1].fetched)
             => \A f \in feeds' : f.id = feed.id =>
                   /\ f.last_updated_header = cur[1].last_updated
                   /\ f.etag = cur[1].etag]_vars

\* C36: no per-feed procedure (fetch, staging, publication) starts for a
\* feed whose row a /delete command has removed from the store, also in the
\* loop over the feeds that follows the sleep in which the command was run.
C36_NothingAfterDelete ==
    [][\A feed \in Range(feed_list) :
          StartsProcedure(feed)
             => \E f \in feeds : f.feed_url = feed.feed_url /\ f.community_id = feed.community_id]_vars

\* C37: every article is published by the feed whose fetch staged it: the
\* feed that create_post is called for is the feed (its URL, its community)
\* that the article was staged for, after any sequence of removals and
\* additions of feeds.
C37_PublishedByStagingFeed ==
    [][(pc # "create_post" /\ pc' = "create_post")
          => [article_url |-> cur'[1].article.article_url,
              feed_url |-> cur'[1].feed.feed_url,
              community_id |-> cur'[1].feed.community_id] \in hist'.staged]_vars

\* the message is an /add and a /delete with the same two arguments
AddThenDelete(pm) ==
    /\ Len(pm.content) = 2
    /\ pm.content[1].command = "add"
    /\ pm.content[2].command = "delete"
    /\ Len(pm.content[1].args) = 2
    /\ pm.content[2].args = pm.content[1].args

\* C38: for a sender who is a moderator, a /delete with the same arguments
\* as an earlier successful /add removes exactly the feed row that the /add
\* created, with and without an instance behind the community name.
C38_DeleteUndoesAdd ==
    [][\A pm \in inbox :
          (/\ PollsOnly(pm)
           /\ AddThenDelete(pm)
           /\ IsModerator(pm.creator, pm.content[1].args[2]))
             => LET added == FeedsBefore(pm, 2) \ feeds
                IN /\ added # {}
                   /\ feeds' = FeedsBefore(pm, 2) \ added]_vars

\* the person is no moderator of the community and has the local name of one
Namesake(person, community_name) ==
    /\ Canonical(community_name) \in RemoteCommunities
    /\ person \notin RemoteModerators(Canonical(community_name))
    /\ \E mod \in RemoteModerators(Canonical(community_name)) : mod.name = person.name

\* C39: a sender is accepted as moderator only if the sender's own account
\* moderates the community: a command of a user of another instance whose
\* local name is the name of a moderator removes and adds no feed row.
C39_NamesakeRefused ==
    [][\A pm \in Answered :
          (/\ Len(pm.content) = 1
           /\ pm.content[1].command \in {"add", "delete"}
           /\ Len(pm.content[1].args) = 2
           /\ Namesake(pm.creator, pm.content[1].args[2]))
             => feeds' = feeds]_vars

\* C31: if no feed is removed and create_post succeeds in the end when it
\* is tried again, every article that is staged is published in the end:
\* its lemmy_post_id becomes non-NULL.
C31_StagedIsPublished ==
    \A url \in Links :
        (\E a \in articles : a.article_url = url /\ a.lemmy_post_id = NULL)
           ~> (\E a \in articles : a.article_url = url /\ a.lemmy_post_id # NULL)

====
